---- MODULE Spec2Model ----
(***************************************************************************)
(* A model of the configuration loading of libdnf5::Base, of the repoquery *)
(* command's configure() step and of the RepoSack repository registry and  *)
(* metadata loader.                                                        *)
(*                                                                         *)
(* File names are sequences of byte values, so that the comparisons of     *)
(* std::filesystem::path (case-sensitive, byte-wise) are computed and not  *)
(* assumed.  Directories are sequences of path components.                 *)
(***************************************************************************)
EXTENDS Integers, Sequences, FiniteSets, TLC

VARIABLES
    fs,          \* the file system: a set of directory entries [dir, name, regular]
    phase,       \* "setup" while the environment prepares files and options, "run" afterwards
    csfl,        \* the last call of create_sorted_file_list: its arguments and its result
    config,      \* the options of Base::config that load_config() reads
    base_call,   \* the last call made on the Base: its inputs, what it read, what it threw
    args,        \* repoquery: the named arguments the argument parser has accepted
    rq,          \* repoquery: the stage of the command and what configure() has set
    ul_repos,    \* update_and_load_repos: the repositories of `repos`, in iteration order
    repo,        \* update_and_load_repos: each repository's metadata and load state
    load_queue,  \* update_and_load_repos: the queue between the two threads
    main_thread, \* update_and_load_repos: where the calling (downloading) thread is
    load_repos_thread, \* update_and_load_repos: where the loader thread is
    hist,        \* update_and_load_repos: the order of the downloads, queueings and loads so far
    sack,        \* RepoSack: the repositories the sack holds
    system_repo, \* RepoSack::system_repo
    cmdline_repo,\* RepoSack::cmdline_repo
    sack_calls,  \* RepoSack: the get_system_repo() and get_cmdline_repo() calls so far
    locked_base, \* Base: the static atomic locked_base
    locked_base_mutex, \* Base: the thread that holds the static locked_base_mutex
    thread,      \* Base lock: what each thread is calling and where it is in the call
    lock_owner,  \* Base lock: the Base whose lock() returned last and was not unlocked since
    base_state,  \* Base::setup: the pool, the options setup() sets, and the setup() calls so far
    pkgs,        \* repoquery run: the packages the repositories hold
    query_run,   \* repoquery run: the queries run() went through and its result
    pkg_specs,   \* repoquery: the package specs of the command line, in their order
    run_trace,   \* repoquery run: the statements run() executed on its queries, each with
                 \* the value every query in scope has after it
    rpm_call,    \* D-Bus Rpm interface: the last method call and what it gave
    system,      \* group command: the installed packages, with reasons, and the installed groups
    group_call   \* group command: the last command and the system before it

confVars == <<fs, phase, csfl, config, base_call>>
rqVars == <<args, rq>>
loadVars == <<ul_repos, repo, load_queue, main_thread, load_repos_thread, hist>>
sackVars == <<sack, system_repo, cmdline_repo, sack_calls>>
lockVars == <<locked_base, locked_base_mutex, thread, lock_owner>>
\* the variables of the parts that follow the repository sack
setupVars == <<base_state>>
runVars == <<pkgs, query_run, pkg_specs, run_trace>>
daemonVars == <<rpm_call, system, group_call>>
moreVars == <<lockVars, setupVars, runVars, daemonVars>>
vars == <<fs, phase, csfl, config, base_call, args, rq,
          ul_repos, repo, load_queue, main_thread, load_repos_thread, hist,
          sack, system_repo, cmdline_repo, sack_calls,
          locked_base, locked_base_mutex, thread, lock_owner, base_state,
          pkgs, query_run, pkg_specs, run_trace, rpm_call, system, group_call>>

(***************************************************************************)
(* Bounds of the model.                                                    *)
(***************************************************************************)
\* the most directory entries the file system holds
MaxFiles == 3
\* the most named arguments on a repoquery command line
MaxArgs == 3
\* the most repositories created in a sack or handed to update_and_load_repos
MaxRepos == 3
\* the most get_system_repo() and get_cmdline_repo() calls of each kind
MaxCalls == 3
\* the most Base::setup() calls on the Base
MaxSetupCalls == 3
\* the most entries of the options dictionary of a D-Bus call
MaxOptions == 3

(***************************************************************************)
(* File names (byte strings) and paths.                                    *)
(***************************************************************************)
\* ".conf" and ".repo", the two extensions the library asks for
ExtConf == <<46, 99, 111, 110, 102>>
ExtRepo == <<46, 114, 101, 112, 111>>

\* "B.conf", "a.conf", "b.conf": upper case sorts before lower case
Name_B_conf == <<66>> \o ExtConf
Name_a_conf == <<97>> \o ExtConf
Name_b_conf == <<98>> \o ExtConf
\* "a.repo": another extension
Name_a_repo == <<97>> \o ExtRepo
\* ".conf": a hidden file, which has no extension
Name_dotconf == ExtConf
\* "dnf.conf", the file name of the main configuration file
Name_dnf_conf == <<100, 110, 102>> \o ExtConf

FileNames == {Name_B_conf, Name_a_conf, Name_b_conf, Name_a_repo, Name_dotconf}

\* CONF_DIRECTORY "/etc/dnf/libdnf5.conf.d" and LIBDNF5_DISTRIBUTION_CONFIG_DIR
\* "/usr/share/dnf5/libdnf.conf.d", as path components below the root
CONF_DIRECTORY == <<"etc", "dnf", "libdnf5.conf.d">>
LIBDNF5_DISTRIBUTION_CONFIG_DIR == <<"usr", "share", "dnf5", "libdnf.conf.d">>
\* the default value of the config_file_path option, "/etc/dnf/dnf.conf"
CONF_FILENAME == [dir |-> <<"etc", "dnf">>, name |-> Name_dnf_conf]

\* the position of the last '.' of a name, 0 when it has none
LastDot(name) ==
    LET dots == {i \in 1..Len(name) : name[i] = 46}
    IN  IF dots = {} THEN 0 ELSE CHOOSE i \in dots : \A j \in dots : j <= i

\* fs::path::filename(): the last component of a path
filename(path) == path.name

\* fs::path::extension(): from the last '.' of the file name to its end; empty
\* for "." and "..", for a name without '.', and for a name whose only '.' leads it
extension(path) ==
    LET name == filename(path)
        d == LastDot(name)
    IN  IF name = <<46>> \/ name = <<46, 46>> \/ d <= 1
        THEN <<>>
        ELSE SubSeq(name, d, Len(name))

\* operator< of two file names: lexicographic on the bytes
StrLess(a, b) ==
    \E i \in 1..Len(b) :
        /\ i <= Len(a) + 1
        /\ \A j \in 1..(i - 1) : a[j] = b[j]
        /\ IF i = Len(a) + 1 THEN TRUE ELSE a[i] < b[i]

(***************************************************************************)
(* create_sorted_file_list                                                 *)
(***************************************************************************)
\* the entries of a directory; a directory that cannot be iterated yields none
Entries(dir) == {e \in fs : e.dir = dir}

\* the orders in which a directory iterator may yield the entries of a set
RECURSIVE Perms(_)
Perms(S) ==
    IF S = {} THEN {<<>>} ELSE UNION {{<<x>> \o p : p \in Perms(S \ {x})} : x \in S}

\* one enumeration order for each directory of the vector
RECURSIVE Enums(_)
Enums(directories) ==
    IF directories = <<>>
    THEN {<<>>}
    ELSE {<<e>> \o rest : e \in Perms(Entries(Head(directories))),
                          rest \in Enums(Tail(directories))}

\* the comparison std::sort is given: by file name
SortLessMutant(p1, p2) == StrLess(filename(p2), filename(p1))
SortLess(p1, p2) == StrLess(filename(p1), filename(p2))

\* the loop over paths that looks for an entry with the same file name
FoundMutant(paths, path) == \E i \in 1..Len(paths) : path = paths[i]
Found(paths, path) == \E i \in 1..Len(paths) : filename(path) = filename(paths[i])

\* the test a directory entry passes to be listed
Accepted(dentry, file_extension) ==
    /\ dentry.regular
    /\ extension([dir |-> dentry.dir, name |-> dentry.name]) = file_extension

\* the inner loop: the entries of one directory, in the order the iterator yields them
RECURSIVE ScanDir(_, _, _)
ScanDir(paths, dentries, file_extension) ==
    IF dentries = <<>>
    THEN paths
    ELSE LET dentry == Head(dentries)
             path == [dir |-> dentry.dir, name |-> dentry.name]
             next == IF Accepted(dentry, file_extension) /\ ~Found(paths, path)
                     THEN Append(paths, path)
                     ELSE paths
         IN  ScanDir(next, Tail(dentries), file_extension)

\* the outer loop: the directories in the order of the input vector
RECURSIVE ScanDirs(_, _, _)
ScanDirs(paths, enum, file_extension) ==
    IF enum = <<>>
    THEN paths
    ELSE ScanDirs(ScanDir(paths, Head(enum), file_extension), Tail(enum), file_extension)

\* std::sort with the comparison SortLess
RECURSIVE Insert(_, _)
Insert(sorted, p) ==
    IF sorted = <<>>
    THEN <<p>>
    ELSE IF SortLess(p, Head(sorted))
         THEN <<p>> \o sorted
         ELSE <<Head(sorted)>> \o Insert(Tail(sorted), p)

RECURSIVE SortPathsSorted(_)
SortPathsSorted(paths) ==
    IF paths = <<>> THEN <<>> ELSE Insert(SortPathsSorted(Tail(paths)), Head(paths))

SortPathsMutant(paths) == paths
SortPaths(paths) == SortPathsSorted(paths)

\* enum[i] is the order in which the iterator yields the entries of directories[i]
create_sorted_file_list(enum, file_extension) ==
    SortPaths(ScanDirs(<<>>, enum, file_extension))

(***************************************************************************)
(* Base::load_config and Base::with_config_file_path                       *)
(***************************************************************************)
\* Option::Priority, the levels the model sets config_file_path with
PRIORITY_DEFAULT == 10
PRIORITY_INSTALLROOT == 15
PRIORITY_COMMANDLINE == 70
PRIORITY_RUNTIME == 80
Priorities == {PRIORITY_DEFAULT, PRIORITY_COMMANDLINE, PRIORITY_RUNTIME}

\* the value of the installroot option when it is not "/"
INSTALLROOT == <<"ir">>

\* installroot_path / path.relative_path(), for a directory and for a file
UnderInstallroot(installroot, dir) == installroot \o dir
FileUnderInstallroot(installroot, path) ==
    [dir |-> UnderInstallroot(installroot, path.dir), name |-> path.name]

\* fs::exists
exists(path) == \E e \in fs : e.dir = path.dir /\ e.name = path.name

\* conf_file_path_priority >= Option::Priority::COMMANDLINE
user_defined_config_file_name(priority) == priority >= PRIORITY_COMMANDLINE

\* the main configuration file load_config() looks at
load_config_conf_file_path(cfg) ==
    IF ~cfg.use_host_config /\ ~user_defined_config_file_name(cfg.config_file_path_priority)
    THEN FileUnderInstallroot(cfg.installroot, cfg.config_file_path)
    ELSE cfg.config_file_path

\* the two drop-in directories, in the order load_config() hands them over
load_config_directories(cfg) ==
    IF ~cfg.use_host_config
    THEN <<UnderInstallroot(cfg.installroot, CONF_DIRECTORY),
           UnderInstallroot(cfg.installroot, LIBDNF5_DISTRIBUTION_CONFIG_DIR)>>
    ELSE <<CONF_DIRECTORY, LIBDNF5_DISTRIBUTION_CONFIG_DIR>>

\* whether load_config() reads the main configuration file
loads_main(cfg) ==
    \/ user_defined_config_file_name(cfg.config_file_path_priority)
    \/ exists(load_config_conf_file_path(cfg))

\* ConfigParser::read: a file that does not exist raises MissingConfigError
ParserRead(path) == IF exists(path) THEN "none" ELSE "MissingConfigError"

\* the parser.read() calls of load_config(), in order
load_config_reads_mutant(cfg, paths) ==
    (IF loads_main(cfg) THEN <<load_config_conf_file_path(cfg)>> ELSE <<>>) \o paths
load_config_reads(cfg, paths) ==
    paths \o (IF loads_main(cfg) THEN <<load_config_conf_file_path(cfg)>> ELSE <<>>)

\* the path with_config_file_path() hands to func
with_config_file_path_conf_path(cfg) ==
    IF ~cfg.use_host_config /\ cfg.config_file_path_priority < PRIORITY_COMMANDLINE
    THEN FileUnderInstallroot(cfg.installroot, cfg.config_file_path)
    ELSE cfg.config_file_path

\* what with_config_file_path() throws when func ended with `outcome`
with_config_file_path_thrown_mutant(cfg, outcome) ==
    IF outcome \in {"MissingConfigError", "InaccessibleConfigError"}
    THEN IF cfg.config_file_path_priority > PRIORITY_COMMANDLINE THEN outcome ELSE "none"
    ELSE outcome
with_config_file_path_thrown(cfg, outcome) ==
    IF outcome = "MissingConfigError"
    THEN IF cfg.config_file_path_priority >= PRIORITY_COMMANDLINE THEN outcome ELSE "none"
    ELSE IF outcome = "InaccessibleConfigError"
         THEN IF cfg.config_file_path_priority >= PRIORITY_COMMANDLINE THEN outcome ELSE "none"
         ELSE outcome

\* the ways func may end: it returns, or it throws one of these
FuncOutcomes == {"none", "MissingConfigError", "InaccessibleConfigError", "RuntimeError"}

(***************************************************************************)
(* The initial state: a new Base with a new RepoSack, an empty file system,*)
(* and a repoquery command that has parsed nothing yet.                    *)
(***************************************************************************)
NoCsfl == [called |-> FALSE, directories |-> <<>>, file_extension |-> <<>>, paths |-> <<>>]
NoBaseCall == [op |-> "none", reads |-> <<>>, func_arg |-> <<>>, func_outcome |-> "none",
               thrown |-> "none"]
DefaultConfig ==
    [config_file_path |-> CONF_FILENAME,
     config_file_path_priority |-> PRIORITY_DEFAULT,
     use_host_config |-> TRUE,
     installroot |-> INSTALLROOT]
NewRepoquery ==
    [stage |-> "parsing",
     system_repo_needed |-> FALSE,
     load_system_repo |-> "unset",
     load_available_repos |-> "unset",
     source_repos_enabled |-> FALSE,
     optional_metadata_types |-> {},
     thrown |-> "none"]
\* the repositories update_and_load_repos may be handed
RepoIds == 1..MaxRepos
NewRepo == [metadata |-> "none", load |-> "none", load_count |-> 0]
\* a null pointer; a pointer to repository r is <<r>>
NULL == <<>>
Ptr(r) == <<r>>
\* the Base objects and the threads of the process that use the Base lock
Bases == {"A", "B"}
Threads == {"t1", "t2"}
\* the default values of the reposdir and logdir options of the model, as path components
\* repoquery before run()
NotRun == [done |-> FALSE, before_whatdepends |-> {}, filtered |-> {}, result |-> {}]

\* the D-Bus interface before any call, and the system before any group command
NoRpmCall == [method |-> "none", specs |-> <<>>, options |-> {}, error |-> "none",
              data |-> {}, job |-> NULL]
NewSystem == [packages |-> {}, groups |-> {}]
NoGroupCall == [op |-> "none", group |-> "none", no_packages |-> FALSE, before |-> NewSystem]

REPOSDIR == <<"etc", "yum.repos.d">>
LOGDIR == <<"var", "log">>
\* a Base before setup(): no pool, the options at their defaults
NewBase ==
    [pool |-> NULL,
     comps_pool |-> NULL,
     reposdir |-> [value |-> <<REPOSDIR>>, priority |-> PRIORITY_DEFAULT],
     logdir |-> [value |-> LOGDIR, priority |-> PRIORITY_DEFAULT],
     varsdir_priority |-> PRIORITY_DEFAULT,
     installroot_locked |-> FALSE,
     varsdir_locked |-> FALSE,
     vars_installroot |-> NULL,
     plugins |-> "none",
     system_state |-> FALSE,
     calls |-> <<>>]

NewThread == [pc |-> "idle", base |-> "A", stale |-> FALSE, result |-> "none", got |-> NULL]

Init ==
    /\ fs = {}
    /\ phase = "setup"
    /\ csfl = NoCsfl
    /\ config = DefaultConfig
    /\ base_call = NoBaseCall
    /\ args = {}
    /\ rq = NewRepoquery
    /\ ul_repos = <<>>
    /\ repo = [r \in RepoIds |-> NewRepo]
    /\ load_queue = <<>>
    /\ main_thread = [pc |-> "idle", i |-> 0]
    /\ load_repos_thread = [pc |-> "not_started", repo |-> NULL]
    /\ hist = [download_order |-> <<>>, queued_order |-> <<>>, load_order |-> <<>>]
    /\ sack = {}
    /\ system_repo = NULL
    /\ cmdline_repo = NULL
    /\ sack_calls = [system |-> 0, cmdline |-> 0, returned |-> NULL]
    /\ locked_base = NULL
    /\ locked_base_mutex = NULL
    /\ thread = [t \in Threads |-> NewThread]
    /\ lock_owner = NULL
    /\ base_state = NewBase
    /\ pkgs = {}
    /\ query_run = NotRun
    /\ pkg_specs = <<>>
    /\ run_trace = <<>>
    /\ rpm_call = NoRpmCall
    /\ system = NewSystem
    /\ group_call = NoGroupCall

(***************************************************************************)
(* The state machine of the configuration files.                           *)
(***************************************************************************)
\* the directories create_sorted_file_list is called on
FileDirs == {CONF_DIRECTORY, LIBDNF5_DISTRIBUTION_CONFIG_DIR}
\* the directories and the files load_config() looks at, on the host and in the installroot
ConfigDirs == FileDirs \cup {UnderInstallroot(INSTALLROOT, d) : d \in FileDirs}
ConfigFileNames == {Name_B_conf, Name_a_conf, Name_a_repo}
MainFiles == {CONF_FILENAME, FileUnderInstallroot(INSTALLROOT, CONF_FILENAME)}

\* the vectors of directories create_sorted_file_list is called with: none, one
\* or two different directories (load_config() hands over two), in either order
DirVectors ==
    {<<>>} \cup {<<d>> : d \in FileDirs} \cup
    {v \in FileDirs \X FileDirs : v[1] # v[2]}

\* the environment creates a directory entry
CreateFile(dir, name, regular) ==
    /\ phase = "setup"
    /\ Cardinality(fs) < MaxFiles
    /\ ~\E e \in fs : e.dir = dir /\ e.name = name
    /\ fs' = fs \cup {[dir |-> dir, name |-> name, regular |-> regular]}
    /\ UNCHANGED <<phase, csfl, config, base_call, rqVars, loadVars, sackVars, moreVars>>

\* the program starts: from here on the file system and the options stay as they are
Start ==
    /\ phase = "setup"
    /\ phase' = "run"
    /\ UNCHANGED <<fs, csfl, config, base_call, rqVars, loadVars, sackVars, moreVars>>

CallCreateSortedFileList(directories, file_extension) ==
    /\ phase = "run"
    /\ \E enum \in Enums(directories) :
           csfl' = [called |-> TRUE, directories |-> directories,
                    file_extension |-> file_extension,
                    paths |-> create_sorted_file_list(enum, file_extension)]
    /\ UNCHANGED <<fs, phase, config, base_call, rqVars, loadVars, sackVars, moreVars>>

NextFiles ==
    \/ \E dir \in FileDirs, name \in FileNames, regular \in BOOLEAN :
           CreateFile(dir, name, regular)
    \/ Start
    \/ \E directories \in DirVectors, file_extension \in {ExtConf, ExtRepo} :
           CallCreateSortedFileList(directories, file_extension)

SpecFiles == Init /\ [][NextFiles]_vars

(***************************************************************************)
(* The state machine of Base's configuration loading.                      *)
(***************************************************************************)
\* the command line or the API sets the config_file_path option with a priority
SetConfigFilePathPriority(priority) ==
    /\ phase = "setup"
    /\ config' = [config EXCEPT !.config_file_path_priority = priority]
    /\ UNCHANGED <<fs, phase, csfl, base_call, rqVars, loadVars, sackVars, moreVars>>

\* the use_host_config option is set
SetUseHostConfig(value) ==
    /\ phase = "setup"
    /\ config' = [config EXCEPT !.use_host_config = value]
    /\ UNCHANGED <<fs, phase, csfl, base_call, rqVars, loadVars, sackVars, moreVars>>

\* Base::load_config()
LoadConfig ==
    /\ phase = "run"
    /\ \E enum \in Enums(load_config_directories(config)) :
           LET paths == create_sorted_file_list(enum, ExtConf)
               reads == load_config_reads(config, paths)
           IN  base_call' =
                   [op |-> "load_config",
                    reads |-> reads,
                    func_arg |-> <<>>,
                    func_outcome |-> "none",
                    thrown |-> IF loads_main(config)
                               THEN ParserRead(load_config_conf_file_path(config))
                               ELSE "none"]
    /\ UNCHANGED <<fs, phase, csfl, config, rqVars, loadVars, sackVars, moreVars>>

\* Base::with_config_file_path(func), func ending with `outcome`
WithConfigFilePath(outcome) ==
    /\ phase = "run"
    /\ base_call' =
           [op |-> "with_config_file_path",
            reads |-> <<>>,
            func_arg |-> with_config_file_path_conf_path(config),
            func_outcome |-> outcome,
            thrown |-> with_config_file_path_thrown(config, outcome)]
    /\ UNCHANGED <<fs, phase, csfl, config, rqVars, loadVars, sackVars, moreVars>>

NextConfig ==
    \/ \E dir \in ConfigDirs, name \in ConfigFileNames : CreateFile(dir, name, TRUE)
    \/ \E path \in MainFiles : CreateFile(path.dir, path.name, TRUE)
    \/ \E priority \in Priorities : SetConfigFilePathPriority(priority)
    \/ \E value \in BOOLEAN : SetUseHostConfig(value)
    \/ Start
    \/ LoadConfig
    \/ \E outcome \in FuncOutcomes : WithConfigFilePath(outcome)

SpecConfig == Init /\ [][NextConfig]_vars

(***************************************************************************)
(* RepoqueryCommand: the named arguments and configure().                  *)
(***************************************************************************)
\* the arguments that set a boolean option
SourceArgs == {"available", "installed"}
OnlyInstalledArgs == {"leaves", "userinstalled", "duplicates", "unneeded", "installonly", "extras"}
BoolArgs ==
    SourceArgs \cup OnlyInstalledArgs \cup
    {"upgrades", "exactdeps", "srpm", "info", "querytags", "changelogs"}

\* pkg_attrs_options without its last, empty entry: each is an argument that
\* sets pkg_attr_option to its own name
PkgAttrArgs ==
    {"conflicts", "depends", "enhances", "obsoletes", "provides", "recommends", "requires",
     "requires_pre", "suggests", "supplements", "files", "sourcerpm", "location"}

\* the options that take a list of capabilities
WhatArgs ==
    {"whatrequires", "whatdepends", "whatconflicts", "whatprovides", "whatobsoletes",
     "whatrecommends", "whatenhances", "whatsupplements", "whatsuggests"}

\* the capabilities on the command line: a plain one and a file pattern
FilePatterns == {"/usr/bin/f"}
Capabilities == {"cap"} \cup FilePatterns

\* the values of --queryformat: one with a tag that needs the file lists, one without
FilelistsFormats == {"%{files}"}
QueryFormats == {"%{name}"} \cup FilelistsFormats
DefaultQueryFormat == "%{full_nevra}"

ArgUniverse ==
    {[name |-> n, value |-> "true"] : n \in BoolArgs} \cup
    {[name |-> n, value |-> n] : n \in PkgAttrArgs} \cup
    {[name |-> n, value |-> c] : n \in WhatArgs, c \in Capabilities} \cup
    {[name |-> "queryformat", value |-> f] : f \in QueryFormats}

\* the long name of an argument: std::replace of '_' by '-' in its name, which
\* changes one name of the model
long_name(name) == IF name = "requires_pre" THEN "requires-pre" ELSE name

\* formatting_conflicts
FormattingConflicts == {"info", "querytags", "queryformat", "changelogs"} \cup PkgAttrArgs

\* the arguments registered as conflicting with argument `name`
ConflictArgsMutant(name) ==
    IF name \in {"info", "querytags", "queryformat", "changelogs"}
    THEN {"info", "querytags", "queryformat", "changelogs"}
    ELSE {}
ConflictArgs(name) ==
    IF name \in FormattingConflicts THEN FormattingConflicts
    ELSE IF name = "leaves" THEN {"available"}
    ELSE IF name = "userinstalled" THEN {"installed"}
    ELSE IF name \in SourceArgs THEN OnlyInstalledArgs \cup {"upgrades"}
    ELSE IF name = "upgrades" THEN OnlyInstalledArgs \cup {"upgrades"}
    ELSE {}

\* the values of the options, read from the accepted arguments
Given(name) == \E a \in args : a.name = name
Values(name) == {a.value : a \in {b \in args : b.name = name}}
pkg_attr_option == IF \E a \in args : a.name \in PkgAttrArgs
                   THEN (CHOOSE a \in args : a.name \in PkgAttrArgs).value
                   ELSE ""
query_format_option == IF Given("queryformat")
                       THEN (CHOOSE a \in args : a.name = "queryformat").value
                       ELSE DefaultQueryFormat

\* libdnf5::cli::output::requires_filelists and libdnf5::utils::is_file_pattern
requires_filelists(format) == format \in FilelistsFormats
is_file_pattern(capability) == capability \in FilePatterns

\* system_repo_needed, as configure() computes it
system_repo_needed ==
    \/ Given("installed") \/ Given("userinstalled") \/ Given("duplicates") \/ Given("leaves")
    \/ Given("unneeded") \/ Given("extras") \/ Given("upgrades") \/ Given("installonly")

\* the argument of context.set_load_available_repos; --available given on the
\* command line gives available_option the priority COMMANDLINE
load_available_repos_mutant ==
    IF Given("available") \/ ~system_repo_needed THEN "ENABLED" ELSE "NONE"
load_available_repos ==
    IF Given("available") \/ ~system_repo_needed \/ Given("extras") \/ Given("upgrades")
    THEN "ENABLED"
    ELSE "NONE"

\* the first return of configure(): the file lists are needed for the output
FilelistsForOutput ==
    pkg_attr_option = "files" \/ requires_filelists(query_format_option)

\* the second return of configure(): a capability is a file pattern
FilelistsForCapability ==
    \E n \in WhatArgs : \E capability \in Values(n) : is_file_pattern(capability)

\* the check of --exactdeps at the end of configure()
ExactdepsWithoutDependency ==
    Given("exactdeps") /\ Values("whatrequires") = {} /\ Values("whatdepends") = {}

\* what configure() has set when it ends, and what it throws
configure ==
    IF Given("querytags")
    THEN [rq EXCEPT !.stage = "configured"]
    ELSE [stage |-> "configured",
          system_repo_needed |-> system_repo_needed,
          load_system_repo |-> IF system_repo_needed THEN "TRUE" ELSE "FALSE",
          load_available_repos |-> load_available_repos,
          source_repos_enabled |-> Given("srpm"),
          optional_metadata_types |->
              (IF Given("changelogs") THEN {"other"} ELSE {}) \cup
              (IF FilelistsForOutput \/ FilelistsForCapability THEN {"filelists"} ELSE {}),
          thrown |->
              IF FilelistsForOutput THEN "none"
              ELSE IF FilelistsForCapability THEN "none"
              ELSE IF ExactdepsWithoutDependency
                   THEN "ArgumentParserMissingDependentArgumentError"
                   ELSE "none"]

\* an argument that is in conflict with one parsed before it
InConflict(arg) == \E other \in ConflictArgs(arg.name) \ {arg.name} : Given(other)

\* the argument parser accepts a named argument
ParseArg(arg) ==
    /\ rq.stage = "parsing"
    /\ Cardinality(args) < MaxArgs
    /\ arg.name \notin WhatArgs => ~Given(arg.name)
    /\ arg \notin args
    /\ ~InConflict(arg)
    /\ args' = args \cup {arg}
    /\ UNCHANGED <<rq, confVars, loadVars, sackVars, moreVars>>

\* the argument parser meets an argument in conflict with an earlier one and throws
ParseConflict(arg) ==
    /\ rq.stage = "parsing"
    /\ Cardinality(args) < MaxArgs
    /\ InConflict(arg)
    /\ rq' = [rq EXCEPT !.stage = "parse_failed",
                        !.thrown = "ArgumentParserConflictingArgumentsError"]
    /\ UNCHANGED <<args, confVars, loadVars, sackVars, moreVars>>

\* RepoqueryCommand::configure()
Configure ==
    /\ rq.stage = "parsing"
    /\ rq' = configure
    /\ UNCHANGED <<args, confVars, loadVars, sackVars, moreVars>>

NextRepoquery ==
    \/ \E arg \in ArgUniverse : ParseArg(arg)
    \/ \E arg \in ArgUniverse : ParseConflict(arg)
    \/ Configure

SpecRepoquery == Init /\ [][NextRepoquery]_vars

(***************************************************************************)
(* RepoSack::update_and_load_repos: the calling thread downloads the       *)
(* metadata of each repository of `repos` and queues it; a thread launched *)
(* at the start picks the queued repositories and loads them.              *)
(***************************************************************************)
\* the iteration orders of a RepoQuery: no repository twice
RepoSeqs ==
    {q \in UNION {[1..n -> RepoIds] : n \in 0..MaxRepos} :
        \A i, j \in DOMAIN q : q[i] = q[j] => i = j}

\* the end of the queue: the calling thread tells the loader that nothing follows
QueueWithStopMutant(queue) == queue
QueueWithStop(queue) == Append(queue, NULL)

\* the loader picks the repository queued first ...
NextToLoadMutant(queue) == queue[Len(queue)]
NextToLoad(queue) == Head(queue)

\* ... and takes it off the queue
QueueAfterPickMutant(queue) == queue
QueueAfterPick(queue) == Tail(queue)

\* the call starts: the loader thread is launched, then `repos` is iterated
UpdateAndLoadRepos(repos) ==
    /\ main_thread.pc = "idle"
    /\ ul_repos' = repos
    /\ load_repos_thread' = [pc |-> "waiting", repo |-> NULL]
    /\ main_thread' = [pc |-> "iterate", i |-> 1]
    /\ UNCHANGED <<repo, load_queue, hist, confVars, rqVars, sackVars, moreVars>>

\* the calling thread calls download_metadata() of the next repository
DownloadStart ==
    /\ main_thread.pc = "iterate"
    /\ main_thread.i <= Len(ul_repos)
    /\ LET r == ul_repos[main_thread.i]
       IN  /\ repo' = [repo EXCEPT ![r].metadata = "downloading"]
           /\ hist' = [hist EXCEPT !.download_order = Append(@, r)]
    /\ main_thread' = [main_thread EXCEPT !.pc = "downloading"]
    /\ UNCHANGED <<ul_repos, load_queue, load_repos_thread, confVars, rqVars, sackVars, moreVars>>

\* download_metadata() returns
DownloadFinish ==
    /\ main_thread.pc = "downloading"
    /\ repo' = [repo EXCEPT ![ul_repos[main_thread.i]].metadata = "downloaded"]
    /\ main_thread' = [main_thread EXCEPT !.pc = "queue"]
    /\ UNCHANGED <<ul_repos, load_queue, load_repos_thread, hist, confVars, rqVars, sackVars, moreVars>>

\* the calling thread queues the repository for loading and goes on
Enqueue ==
    /\ main_thread.pc = "queue"
    /\ load_queue' = Append(load_queue, Ptr(ul_repos[main_thread.i]))
    /\ hist' = [hist EXCEPT !.queued_order = Append(@, ul_repos[main_thread.i])]
    /\ main_thread' = [pc |-> "iterate", i |-> main_thread.i + 1]
    /\ UNCHANGED <<ul_repos, repo, load_repos_thread, confVars, rqVars, sackVars, moreVars>>

\* every repository is queued: the calling thread ends the queue and waits for the loader
FinishLoadRepos ==
    /\ main_thread.pc = "iterate"
    /\ main_thread.i > Len(ul_repos)
    /\ load_queue' = QueueWithStop(load_queue)
    /\ main_thread' = [main_thread EXCEPT !.pc = "join"]
    /\ UNCHANGED <<ul_repos, repo, load_repos_thread, hist, confVars, rqVars, sackVars, moreVars>>

\* the loader thread picks the next item: a repository, whose load() it calls,
\* or the end of the queue, at which it ends
LoaderPick ==
    /\ load_repos_thread.pc = "waiting"
    /\ load_queue # <<>>
    /\ LET item == NextToLoad(load_queue)
       IN  IF item = NULL
           THEN /\ load_repos_thread' = [pc |-> "ended", repo |-> NULL]
                /\ UNCHANGED <<repo, hist>>
           ELSE /\ load_repos_thread' = [pc |-> "loading", repo |-> item]
                /\ repo' = [repo EXCEPT ![item[1]].load = "loading",
                                        ![item[1]].load_count = @ + 1]
                /\ hist' = [hist EXCEPT !.load_order = Append(@, item[1])]
    /\ load_queue' = QueueAfterPick(load_queue)
    /\ UNCHANGED <<ul_repos, main_thread, confVars, rqVars, sackVars, moreVars>>

\* load() returns
LoadDone ==
    /\ load_repos_thread.pc = "loading"
    /\ repo' = [repo EXCEPT ![load_repos_thread.repo[1]].load = "loaded"]
    /\ load_repos_thread' = [pc |-> "waiting", repo |-> NULL]
    /\ UNCHANGED <<ul_repos, load_queue, main_thread, hist, confVars, rqVars, sackVars, moreVars>>

\* the loader thread has ended: join() returns it and the call returns
Join ==
    /\ main_thread.pc = "join"
    /\ load_repos_thread.pc = "ended"
    /\ main_thread' = [main_thread EXCEPT !.pc = "returned"]
    /\ UNCHANGED <<ul_repos, repo, load_queue, load_repos_thread, hist,
                   confVars, rqVars, sackVars, moreVars>>

NextLoad ==
    \/ \E repos \in RepoSeqs : UpdateAndLoadRepos(repos)
    \/ DownloadStart
    \/ DownloadFinish
    \/ Enqueue
    \/ FinishLoadRepos
    \/ LoaderPick
    \/ LoadDone
    \/ Join

\* both threads are scheduled, and every download_metadata() and load() returns
SpecLoad == Init /\ [][NextLoad]_vars /\ WF_vars(NextLoad)

(***************************************************************************)
(* RepoSack: the repositories of the sack, the system repository and the   *)
(* command line repository.                                                *)
(***************************************************************************)
\* the ids of the system repository ("@System") and of the command line
\* repository ("@commandline"); the repositories create_repo() makes have the
\* ids of RepoIds
SystemRepoId == MaxRepos + 1
CmdlineRepoId == MaxRepos + 2

\* a new repository object of the sack; obj tells the objects apart
NewSackRepo(id, type) == [id |-> id, type |-> type, obj |-> Cardinality(sack) + 1]

\* RepoSack::has_system_repo() and RepoSack::has_cmdline_repo()
has_system_repo_mutant == cmdline_repo # NULL
has_system_repo == system_repo # NULL
has_cmdline_repo == cmdline_repo # NULL

\* RepoSack::create_repo(id)
CreateRepo(id) ==
    /\ ~\E r \in sack : r.id = id
    /\ sack' = sack \cup {NewSackRepo(id, "AVAILABLE")}
    /\ UNCHANGED <<system_repo, cmdline_repo, sack_calls, confVars, rqVars, loadVars, moreVars>>

\* RepoSack::get_system_repo(): "If not created yet, creates the system
\* repository and returns it."
GetSystemRepo ==
    /\ sack_calls.system < MaxCalls
    /\ IF system_repo = NULL
       THEN LET new == NewSackRepo(SystemRepoId, "SYSTEM")
            IN  /\ sack' = sack \cup {new}
                /\ system_repo' = Ptr(new.obj)
       ELSE UNCHANGED <<sack, system_repo>>
    /\ sack_calls' = [sack_calls EXCEPT !.system = @ + 1, !.returned = system_repo']
    /\ UNCHANGED <<cmdline_repo, confVars, rqVars, loadVars, moreVars>>

\* RepoSack::get_cmdline_repo(): "If not created yet, creates the cmdline
\* repository and returns it."
GetCmdlineRepo ==
    /\ sack_calls.cmdline < MaxCalls
    /\ IF cmdline_repo = NULL
       THEN LET new == NewSackRepo(CmdlineRepoId, "COMMANDLINE")
            IN  /\ sack' = sack \cup {new}
                /\ cmdline_repo' = Ptr(new.obj)
       ELSE UNCHANGED <<sack, cmdline_repo>>
    /\ sack_calls' = [sack_calls EXCEPT !.cmdline = @ + 1, !.returned = cmdline_repo']
    /\ UNCHANGED <<system_repo, confVars, rqVars, loadVars, moreVars>>

NextSack ==
    \/ \E id \in RepoIds : CreateRepo(id)
    \/ GetSystemRepo
    \/ GetCmdlineRepo

SpecSack == Init /\ [][NextSack]_vars

(***************************************************************************)
(* Base::lock, Base::unlock, Base::get_locked_base: every statement of a   *)
(* call is a step of the calling thread, so the calls of two threads       *)
(* interleave as the code lets them.                                       *)
(***************************************************************************)
\* libdnf_user_assert(locked_base, ...): the lock is held by some Base
IsLocked == locked_base # NULL

\* libdnf_user_assert(locked_base == this, ...): the lock is held by this Base
OwnedByThisMutant(base) == TRUE
OwnedByThis(base) == locked_base = Ptr(base)

\* locked_base_mutex.unlock(): it releases a mutex the calling thread holds; on
\* a mutex it does not hold the behaviour is undefined, and the mutex is then
\* either released all the same or left as it is
MutexAfterUnlock(t) ==
    IF locked_base_mutex = Ptr(t) THEN {NULL} ELSE {NULL, locked_base_mutex}

\* a thread calls base.lock()
CallLock(t, base) ==
    /\ thread[t].pc = "idle"
    /\ thread' = [thread EXCEPT ![t] = [NewThread EXCEPT !.pc = "lock_mutex", !.base = base]]
    /\ UNCHANGED <<locked_base, locked_base_mutex, lock_owner>>
    /\ UNCHANGED <<confVars, rqVars, loadVars, sackVars, setupVars, runVars, daemonVars>>

\* locked_base_mutex.lock(): the thread goes on when the mutex is free; a thread
\* that holds the mutex itself waits like any other and so never goes on
LockMutex(t) ==
    /\ thread[t].pc = "lock_mutex"
    /\ locked_base_mutex = NULL
    /\ locked_base_mutex' = Ptr(t)
    /\ thread' = [thread EXCEPT ![t].pc = "lock_store"]
    /\ UNCHANGED <<locked_base, lock_owner>>
    /\ UNCHANGED <<confVars, rqVars, loadVars, sackVars, setupVars, runVars, daemonVars>>

\* locked_base = this, and lock() returns; an unlock() call of another thread
\* that is past its assertions passed them before this return
LockStore(t) ==
    /\ thread[t].pc = "lock_store"
    /\ locked_base' = Ptr(thread[t].base)
    /\ lock_owner' = Ptr(thread[t].base)
    /\ thread' = [u \in Threads |->
                     IF u = t THEN [thread[t] EXCEPT !.pc = "idle", !.result = "returned"]
                     ELSE IF thread[u].pc \in {"unlock_store", "unlock_mutex"}
                          THEN [thread[u] EXCEPT !.stale = TRUE]
                          ELSE thread[u]]
    /\ UNCHANGED locked_base_mutex
    /\ UNCHANGED <<confVars, rqVars, loadVars, sackVars, setupVars, runVars, daemonVars>>

\* a thread calls base.unlock()
CallUnlock(t, base) ==
    /\ thread[t].pc = "idle"
    /\ thread' = [thread EXCEPT ![t] = [NewThread EXCEPT !.pc = "unlock_check1", !.base = base]]
    /\ UNCHANGED <<locked_base, locked_base_mutex, lock_owner>>
    /\ UNCHANGED <<confVars, rqVars, loadVars, sackVars, setupVars, runVars, daemonVars>>

\* the first assertion of unlock()
UnlockCheck1(t) ==
    /\ thread[t].pc = "unlock_check1"
    /\ thread' = [thread EXCEPT ![t] =
                     IF IsLocked
                     THEN [@ EXCEPT !.pc = "unlock_check2"]
                     ELSE [@ EXCEPT !.pc = "idle", !.result = "UserAssertionError"]]
    /\ UNCHANGED <<locked_base, locked_base_mutex, lock_owner>>
    /\ UNCHANGED <<confVars, rqVars, loadVars, sackVars, setupVars, runVars, daemonVars>>

\* the second assertion of unlock()
UnlockCheck2(t) ==
    /\ thread[t].pc = "unlock_check2"
    /\ thread' = [thread EXCEPT ![t] =
                     IF OwnedByThis(thread[t].base)
                     THEN [@ EXCEPT !.pc = "unlock_store"]
                     ELSE [@ EXCEPT !.pc = "idle", !.result = "UserAssertionError"]]
    /\ UNCHANGED <<locked_base, locked_base_mutex, lock_owner>>
    /\ UNCHANGED <<confVars, rqVars, loadVars, sackVars, setupVars, runVars, daemonVars>>

\* locked_base = nullptr; the lock of the Base ends here when unlock() passed
\* its assertions after the lock() that made the Base the owner had returned
UnlockStore(t) ==
    /\ thread[t].pc = "unlock_store"
    /\ locked_base' = NULL
    /\ lock_owner' = IF thread[t].stale THEN lock_owner ELSE NULL
    /\ thread' = [thread EXCEPT ![t].pc = "unlock_mutex"]
    /\ UNCHANGED locked_base_mutex
    /\ UNCHANGED <<confVars, rqVars, loadVars, sackVars, setupVars, runVars, daemonVars>>

\* locked_base_mutex.unlock(), and unlock() returns
UnlockMutex(t) ==
    /\ thread[t].pc = "unlock_mutex"
    /\ locked_base_mutex' \in MutexAfterUnlock(t)
    /\ thread' = [thread EXCEPT ![t].pc = "idle", ![t].result = "returned"]
    /\ UNCHANGED <<locked_base, lock_owner>>
    /\ UNCHANGED <<confVars, rqVars, loadVars, sackVars, setupVars, runVars, daemonVars>>

\* Base::get_locked_base()
GetLockedBase(t) ==
    /\ thread[t].pc = "idle"
    /\ thread' = [thread EXCEPT ![t] = [NewThread EXCEPT !.result = "returned", !.got = locked_base]]
    /\ UNCHANGED <<locked_base, locked_base_mutex, lock_owner>>
    /\ UNCHANGED <<confVars, rqVars, loadVars, sackVars, setupVars, runVars, daemonVars>>

NextLock ==
    \/ \E t \in Threads, base \in Bases : CallLock(t, base)
    \/ \E t \in Threads : LockMutex(t)
    \/ \E t \in Threads : LockStore(t)
    \/ \E t \in Threads, base \in Bases : CallUnlock(t, base)
    \/ \E t \in Threads : UnlockCheck1(t)
    \/ \E t \in Threads : UnlockCheck2(t)
    \/ \E t \in Threads : UnlockStore(t)
    \/ \E t \in Threads : UnlockMutex(t)
    \/ \E t \in Threads : GetLockedBase(t)

SpecLock == Init /\ [][NextLock]_vars

(***************************************************************************)
(* Base::setup and Base::is_initialized.                                   *)
(***************************************************************************)
\* Base::is_initialized(): p_impl->pool.get() != nullptr
is_initialized == base_state.pool # NULL

\* libdnf_user_assert(!pool, "Base was already initialized") fails
AlreadyInitializedMutant == FALSE
AlreadyInitialized == base_state.pool # NULL

\* Option::set(priority, value): the value is taken unless the option was set
\* with a higher priority
OptionSet(option, priority, value) ==
    IF priority >= option.priority
    THEN [value |-> value, priority |-> priority]
    ELSE option

\* the part of setup() that resolves the installroot configuration
SetupInstallroot(b) ==
    LET installroot_path == config.installroot
        installroot_reposdirs ==
            [i \in 1..Len(b.reposdir.value) |->
                UnderInstallroot(installroot_path, b.reposdir.value[i])]
        vars_installroot ==
            IF ~config.use_host_config /\ b.varsdir_priority < PRIORITY_COMMANDLINE
            THEN installroot_path
            ELSE <<>>
    IN  [b EXCEPT
           !.reposdir = IF ~config.use_host_config
                        THEN OptionSet(@, PRIORITY_INSTALLROOT, installroot_reposdirs)
                        ELSE @,
           !.logdir = IF @.priority < PRIORITY_COMMANDLINE
                      THEN OptionSet(@, PRIORITY_INSTALLROOT,
                                     UnderInstallroot(installroot_path, @.value))
                      ELSE @,
           !.vars_installroot = Ptr(vars_installroot)]

\* load_plugins(), plugins.init(), plugins.pre_base_setup()
SetupPlugins(b) == [b EXCEPT !.plugins = "pre_base_setup"]

\* pool.reset(new RpmPool), comps_pool.reset(new CompsPool), installroot.lock()
SetupPools(b) ==
    [b EXCEPT !.pool = Ptr("RpmPool"), !.comps_pool = Ptr("CompsPool"),
              !.installroot_locked = TRUE]

\* from get_vars()->load() to plugins.post_base_setup()
SetupRest(b) ==
    [b EXCEPT !.system_state = TRUE, !.varsdir_locked = TRUE, !.plugins = "post_base_setup"]

\* the ways a setup() call that passed its assertion may end: it returns, the
\* plugins throw before the pool is created, or the loading of the variables
\* throws after it
SetupOutcomes == {"returned", "plugins_throw", "vars_throw"}

\* the Base after a setup() call that ends with `outcome`
setup(outcome) ==
    IF AlreadyInitialized
    THEN [base_state EXCEPT !.calls = Append(@, "UserAssertionError")]
    ELSE IF outcome = "plugins_throw"
    THEN [SetupInstallroot(base_state) EXCEPT !.calls = Append(@, "plugins_throw")]
    ELSE IF outcome = "vars_throw"
    THEN [SetupPools(SetupPlugins(SetupInstallroot(base_state))) EXCEPT
             !.calls = Append(@, "vars_throw")]
    ELSE [SetupRest(SetupPools(SetupPlugins(SetupInstallroot(base_state)))) EXCEPT
             !.calls = Append(@, "returned")]

\* the logdir or the varsdir option is given on the command line
SetLogdirPriority(priority) ==
    /\ base_state.calls = <<>>
    /\ base_state' = [base_state EXCEPT !.logdir.priority = priority]
    /\ UNCHANGED <<confVars, rqVars, loadVars, sackVars, lockVars, runVars, daemonVars>>

SetVarsdirPriority(priority) ==
    /\ base_state.calls = <<>>
    /\ base_state' = [base_state EXCEPT !.varsdir_priority = priority]
    /\ UNCHANGED <<confVars, rqVars, loadVars, sackVars, lockVars, runVars, daemonVars>>

\* Base::setup()
Setup(outcome) ==
    /\ Len(base_state.calls) < MaxSetupCalls
    /\ AlreadyInitialized => outcome = "returned"
    /\ base_state' = setup(outcome)
    /\ UNCHANGED <<confVars, rqVars, loadVars, sackVars, lockVars, runVars, daemonVars>>

NextSetup ==
    \/ \E value \in BOOLEAN : SetUseHostConfig(value)
    \/ \E priority \in Priorities : SetLogdirPriority(priority)
    \/ \E priority \in Priorities : SetVarsdirPriority(priority)
    \/ \E outcome \in SetupOutcomes : Setup(outcome)

SpecSetup == Init /\ [][NextSetup]_vars

(***************************************************************************)
(* RepoqueryCommand::run: the filters and the --srpm transform, on a small *)
(* universe of packages.  The command lines of this part hold none of the *)
(* options that are not named here, so the branches of run() for them are  *)
(* not taken.                                                              *)
(***************************************************************************)
\* the kinds of dependency --whatdepends looks at
DepKinds == {"requires", "recommends", "enhances", "supplements", "suggests"}
NoDeps == [k \in DepKinds |-> {}]

\* the installonlypkgs option: the patterns of its default value that the
\* packages of the model can provide
INSTALLONLYPKGS == {"kernel", "installonlypkg(kernel)"}

\* the packages the repositories may hold.  "cap" provides the capability of
\* its own name and "libcap.so"; "app" requires the capability "cap"; "tool"
\* recommends "libcap.so", which it gets from the package "cap"; "kernel" is an
\* installonly package installed in two versions; "dup" is an ordinary package
\* installed in two versions; a source package provides nothing
Package(name, evr, arch, sourcerpm, repo_id, provides, deps) ==
    [name |-> name, evr |-> evr, arch |-> arch, sourcerpm |-> sourcerpm,
     repo_id |-> repo_id, provides |-> provides, deps |-> deps]
Universe ==
    {Package("cap", "1", "x86_64", "cap", "fedora", {"cap", "libcap.so"}, NoDeps),
     Package("cap", "1", "src", "", "fedora-source", {}, NoDeps),
     Package("app", "1", "x86_64", "app", "fedora", {"app"},
             [NoDeps EXCEPT !["requires"] = {"cap"}]),
     Package("app", "1", "src", "", "fedora-source", {}, NoDeps),
     Package("tool", "1", "x86_64", "tool", "fedora", {"tool"},
             [NoDeps EXCEPT !["recommends"] = {"libcap.so"}]),
     Package("kernel", "1", "x86_64", "kernel", "@System",
             {"kernel", "installonlypkg(kernel)"}, NoDeps),
     Package("kernel", "2", "x86_64", "kernel", "@System",
             {"kernel", "installonlypkg(kernel)"}, NoDeps),
     Package("dup", "1", "x86_64", "dup", "@System", {"dup"},
             [NoDeps EXCEPT !["suggests"] = {"cap"}]),
     Package("dup", "2", "x86_64", "dup", "@System", {"dup"}, NoDeps)}

\* the arguments of the command lines of this part
RunArgUniverse ==
    {a \in ArgUniverse :
        a.name \in {"srpm", "duplicates", "installonly", "exactdeps", "whatdepends"}}

\* the package specs of the command lines: a name, a name in another case, and
\* the path of an rpm file
RpmPaths == {"./tool-2.rpm"}
SpecUniverse == {"cap", "APP"} \cup RpmPaths

\* RepoSack::add_cmdline_packages: the package an rpm file of the command line
\* becomes in the command-line repository; other specs are ignored
cmdline_package(path) ==
    Package("tool", "2", "x86_64", "tool", "@commandline", {"tool"}, NoDeps)

\* load_additional_packages(): cmdline_packages
cmdline_packages ==
    IF rq.load_available_repos \in {"NONE", "unset"} THEN {}
    ELSE {cmdline_package(pkg_specs[i]) :
              i \in {j \in 1..Len(pkg_specs) : pkg_specs[j] \in RpmPaths}}

\* the repositories the context loads after configure(): the system repository,
\* the available ones, and the source repositories --srpm enables
RepoLoaded(repo_id) ==
    IF repo_id = "@System" THEN rq.load_system_repo = "TRUE"
    ELSE IF repo_id = "fedora-source"
         THEN rq.load_available_repos = "ENABLED" /\ rq.source_repos_enabled
         ELSE rq.load_available_repos = "ENABLED"

\* PackageQuery base_query(ctx.base, flags, false): the packages of the loaded
\* repositories and of the command-line repository
base_query == {p \in pkgs : RepoLoaded(p.repo_id)} \cup cmdline_packages

\* PackageQuery::filter_provides(patterns, GLOB), for patterns without wildcards
filter_provides(query, patterns) == {p \in query : p.provides \cap patterns # {}}

\* resolve_pkg_spec with ignore_case and without provides and binaries: the
\* packages of the query whose name the spec is, in any case of its letters
to_lower(spec) == IF spec = "APP" THEN "app" ELSE spec
resolve_pkg_spec(query, spec) == {p \in query : p.name = to_lower(spec)}

\* the first step of run(): the specs of the command line narrow the base query
pkg_specs_filter ==
    IF pkg_specs = <<>> THEN base_query
    ELSE (cmdline_packages \cap base_query) \cup
         UNION {resolve_pkg_spec(base_query, pkg_specs[i]) : i \in 1..Len(pkg_specs)}

\* get_installonly_query(): a query on all packages, filtered by the provides
get_installonly_query == filter_provides(base_query, INSTALLONLYPKGS)

\* PackageQuery::filter_duplicates(): the installed packages of which another
\* version with the same name and architecture is installed
filter_duplicates(query) ==
    {p \in query :
        /\ p.repo_id = "@System"
        /\ \E o \in query :
               o.repo_id = "@System" /\ o.name = p.name /\ o.arch = p.arch /\ o.evr # p.evr}

\* the --duplicates branch of run()
duplicates_filter_mutant(query) == filter_duplicates(query)
duplicates_filter(query) == filter_duplicates(query \ get_installonly_query)

\* ReldepList::add_reldep_with_glob: the dependencies known to the pool that
\* match one of the globs (names without wildcards)
AllReldeps ==
    UNION {p.provides : p \in base_query} \cup
    UNION {UNION {p.deps[k] : k \in DepKinds} : p \in base_query}
matched_reldeps(globs) == {r \in AllReldeps : r \in globs}

\* filter_requires / filter_recommends / filter_enhances / filter_supplements /
\* filter_suggests with a list of dependencies and the comparison EQ
filter_dep_reldeps(query, kind, reldeps) == {p \in query : p.deps[kind] \cap reldeps # {}}

\* the same filters with a set of packages: the dependency is provided by one of them
filter_dep_packages(query, kind, package_set) ==
    {p \in query : \E o \in package_set : p.deps[kind] \cap o.provides # {}}

\* resolve_nevras_to_packges: the packages of the query that a glob names,
\* without provides, file names and binaries; a name is matched by the name
resolve_nevras_to_packges(nevra_globs, query) == {p \in query : p.name \in nevra_globs}

\* whether the --whatdepends branch also matches by the resolved packages
with_resolved_nevras_mutant(exact) == TRUE
with_resolved_nevras(exact) == ~exact

\* the --whatdepends branch of run()
whatdepends_filter(result_query, globs, exact) ==
    LET reldeps == matched_reldeps(globs)
        by_reldeps ==
            UNION {filter_dep_reldeps(result_query, k, reldeps) : k \in DepKinds}
        pkgs_from_resolved_nevras == resolve_nevras_to_packges(globs, result_query)
        by_packages ==
            UNION {filter_dep_packages(result_query, k, pkgs_from_resolved_nevras) :
                       k \in DepKinds}
    IN  IF with_resolved_nevras(exact) THEN by_reldeps \cup by_packages ELSE by_reldeps

\* the --srpm branch of run()
srpm_transform(result_query) ==
    LET only_src_query == {p \in result_query : p.arch = "src"}
    IN  UNION {{s \in only_src_query : s.name = pkg.sourcerpm /\ s.evr = pkg.evr} :
                   pkg \in {p \in result_query : p.sourcerpm # ""}}

\* run(): the queries it goes through
run ==
    LET q0 == pkg_specs_filter
        q1 == IF Given("duplicates") THEN duplicates_filter(q0) ELSE q0
        q2 == IF Given("installonly") THEN q1 \cap get_installonly_query ELSE q1
        q3 == IF Values("whatdepends") # {}
              THEN whatdepends_filter(q2, Values("whatdepends"), Given("exactdeps"))
              ELSE q2
        q4 == IF Given("srpm") THEN srpm_transform(q3) ELSE q3
    IN  [done |-> TRUE, before_whatdepends |-> q2, filtered |-> q3, result |-> q4]

\* the filter stages of run() that this part models, in the order run() applies them
filter_stages == <<"duplicates", "installonly", "whatdepends">>

\* the condition under which run() applies a stage
stage_enabled(name) ==
    IF name = "whatdepends" THEN Values("whatdepends") # {} ELSE Given(name)

\* what a stage makes of result_query
filter_stage(name, result_query) ==
    CASE name = "duplicates" -> duplicates_filter(result_query)
      [] name = "installonly" -> result_query \cap get_installonly_query
      [] name = "whatdepends" ->
             whatdepends_filter(result_query, Values("whatdepends"), Given("exactdeps"))

\* the enabled stages of a sequence of stages, applied one after the other
RECURSIVE apply_filters(_, _)
apply_filters(order, result_query) ==
    IF order = <<>> THEN result_query
    ELSE apply_filters(Tail(order),
                       IF stage_enabled(Head(order))
                       THEN filter_stage(Head(order), result_query)
                       ELSE result_query)

\* a repository holds one more package
AddPackage(p) ==
    /\ rq.stage = "parsing"
    /\ p \notin pkgs
    /\ pkgs' = pkgs \cup {p}
    /\ UNCHANGED <<query_run, pkg_specs, run_trace, confVars, rqVars, loadVars, sackVars, lockVars,
                   setupVars, daemonVars>>

\* RepoqueryCommand::run(), after a configure() that did not throw
Run ==
    /\ rq.stage = "configured"
    /\ rq.thrown = "none"
    /\ ~query_run.done
    /\ query_run' = run
    /\ UNCHANGED <<pkgs, pkg_specs, run_trace, confVars, rqVars, loadVars, sackVars, lockVars,
                   setupVars, daemonVars>>

NextRun ==
    \/ \E p \in Universe : AddPackage(p)
    \/ \E arg \in RunArgUniverse : ParseArg(arg)
    \/ Configure
    \/ Run

SpecRun == Init /\ [][NextRun]_vars

(***************************************************************************)
(* RepoqueryCommand::run, statement by statement.  Each PackageQuery and   *)
(* PackageSet variable of run() and of the functions it calls is a name    *)
(* bound to an object that holds a set of packages; a statement constructs *)
(* an object, copies one, binds a reference to one, or changes one in      *)
(* place.  run_trace keeps, for every statement, the value of every name   *)
(* in scope after it.                                                      *)
(***************************************************************************)
\* the files a package owns
package_files(p) == IF p.name = "app" /\ p.arch # "src" THEN {"/usr/bin/f"} ELSE {}

\* no query constructed yet: scope holds the names and the object of each, heap
\* the set of packages each object holds
NewEnv == [scope |-> {}, heap |-> <<>>]

\* the set the query `name` holds, and the sets of all queries in scope
object(env, name) == (CHOOSE b \in env.scope : b.name = name).id
value(env, name) == env.heap[object(env, name)]
view(env) == [n \in {b.name : b \in env.scope} |-> value(env, n)]

\* the name is bound to an object from now on
bind(env, dst, id) ==
    [env EXCEPT !.scope = {b \in env.scope : b.name # dst} \cup {[name |-> dst, id |-> id]}]

\* PackageQuery x(base, ...): a new object, and the name bound to it
construct(env, dst, packages) ==
    [bind(env, dst, Len(env.heap) + 1) EXCEPT !.heap = Append(env.heap, packages)]

\* PackageQuery's copy constructor: a new object that holds what the other holds
copy_query(env, dst, src) == construct(env, dst, value(env, src))

\* const PackageQuery & x = y: another name of the same object
reference(env, dst, src) == bind(env, dst, object(env, src))

\* the object of `dst` holds other packages from now on
store(env, dst, packages) == [env EXCEPT !.heap[object(env, dst)] = packages]

\* the names go out of scope
end_scope(env, names) == [env EXCEPT !.scope = {b \in env.scope : b.name \notin names}]

\* the filter methods of PackageQuery that run() calls, by what they keep of a query
apply_filter(f, env, query) ==
    CASE f.name = "resolve_pkg_spec" -> resolve_pkg_spec(query, f.spec)
      [] f.name = "resolve_nevra" -> resolve_nevras_to_packges({f.spec}, query)
      [] f.name = "provides" -> filter_provides(query, f.patterns)
      [] f.name = "file" -> {p \in query : package_files(p) \cap f.patterns # {}}
      [] f.name = "duplicates" -> filter_duplicates(query)
      [] f.name = "dep_reldeps" -> filter_dep_reldeps(query, f.kind, f.reldeps)
      [] f.name = "dep_packages" -> filter_dep_packages(query, f.kind, value(env, f.packages))
      [] f.name = "arch" -> {p \in query : p.arch \in f.patterns}
      [] f.name = "name" -> {p \in query : p.name \in f.patterns}
      [] f.name = "evr" -> {p \in query : p.evr \in f.patterns}

\* one statement
exec_statement(env, s) ==
    CASE s.op = "construct" -> construct(env, s.dst, s.packages)
      [] s.op = "copy" -> copy_query(env, s.dst, s.src)
      [] s.op = "reference" -> reference(env, s.dst, s.src)
      [] s.op = "filter" -> store(env, s.dst, apply_filter(s.filter, env, value(env, s.dst)))
      [] s.op = "union" -> store(env, s.dst, value(env, s.dst) \cup value(env, s.src))
      [] s.op = "minus" -> store(env, s.dst, value(env, s.dst) \ value(env, s.src))
      [] s.op = "intersect" -> store(env, s.dst, value(env, s.dst) \cap value(env, s.src))
      [] s.op = "assign" -> store(env, s.dst, value(env, s.src))
      [] s.op = "add_contained" ->
             store(env, s.dst, value(env, s.dst) \cup (s.packages \cap value(env, s.src)))
      [] s.op = "end_scope" -> end_scope(env, s.names)

\* the statements of run(), as data
Statement(op, dst, src) == [op |-> op, dst |-> dst, src |-> src]
Filter(dst, f) == [op |-> "filter", dst |-> dst, filter |-> f]
Construct(dst, packages) == [op |-> "construct", dst |-> dst, packages |-> packages]
EndScope(names) == [op |-> "end_scope", dst |-> "", names |-> names]

\* the elements of a set, one after the other
RECURSIVE SetToSeq(_)
SetToSeq(S) == IF S = {} THEN <<>> ELSE LET x == CHOOSE y \in S : TRUE IN <<x>> \o SetToSeq(S \ {x})

\* a loop: the statements of its body for each item, one after the other
RECURSIVE for_each(_, _)
for_each(items, body) ==
    IF items = <<>> THEN <<>> ELSE body[Head(items)] \o for_each(Tail(items), body)

\* `auto x = y;` and `PackageQuery x(y);` declare a copy
copy_declaration_mutant == "reference"
copy_declaration == "copy"

\* base_query and result_query
construct_code == <<Construct("base_query", base_query), Construct("result_query", {})>>

\* result_query |= package_query
add_spec_result_mutant == "assign"
add_spec_result == "union"

\* the step of the package specs
specs_code(specs) ==
    IF specs = <<>> THEN <<Statement("union", "result_query", "base_query")>>
    ELSE for_each(SetToSeq(cmdline_packages),
                  [pkg \in cmdline_packages |->
                      <<[op |-> "add_contained", dst |-> "result_query", src |-> "base_query",
                         packages |-> {pkg}]>>]) \o
         for_each(specs,
                  [spec \in SpecUniverse |->
                      <<Statement(copy_declaration, "package_query", "base_query"),
                        Filter("package_query", [name |-> "resolve_pkg_spec", spec |-> spec]),
                        Statement(add_spec_result, "result_query", "package_query"),
                        EndScope({"package_query"})>>])

\* get_installonly_query(), and what the caller does with the query it returns
installonly_code(op) ==
    <<Construct("installonly_query", base_query),
      Filter("installonly_query", [name |-> "provides", patterns |-> INSTALLONLYPKGS]),
      Statement(op, "result_query", "installonly_query"),
      EndScope({"installonly_query"})>>

\* --duplicates
duplicates_code ==
    installonly_code("minus") \o <<Filter("result_query", [name |-> "duplicates"])>>

\* resolve_nevras_to_packges(base, nevra_globs, query): its parameter base_query
\* is a reference to the caller's query, and the caller gets the set under the
\* name `result`
resolve_code(nevra_globs, query, result) ==
    <<Statement("reference", "nevras_base_query", query),
      Construct("resolved_nevras_set", {})>> \o
    for_each(SetToSeq(nevra_globs),
             [nevra \in nevra_globs |->
                 <<Statement(copy_declaration, "tmp_query", "nevras_base_query"),
                   Filter("tmp_query", [name |-> "resolve_nevra", spec |-> nevra]),
                   Statement("union", "resolved_nevras_set", "tmp_query"),
                   EndScope({"tmp_query"})>>]) \o
    <<Statement("reference", result, "resolved_nevras_set"),
      EndScope({"nevras_base_query", "resolved_nevras_set"})>>

\* a copy of result_query, filtered by a dependency, joins dependsquery
depends_code(query, filter) ==
    <<Statement(copy_declaration, query, "result_query"),
      Filter(query, filter),
      Statement("union", "dependsquery", query)>>
reldeps_filter(kind, reldeps) == [name |-> "dep_reldeps", kind |-> kind, reldeps |-> reldeps]
packages_filter(kind, packages) == [name |-> "dep_packages", kind |-> kind, packages |-> packages]

\* --whatdepends
whatdepends_code(globs, exact) ==
    <<Statement(copy_declaration, "dependsquery", "result_query"),
      Filter("dependsquery", reldeps_filter("requires", matched_reldeps(globs)))>> \o
    depends_code("recommends_reldep_query", reldeps_filter("recommends", matched_reldeps(globs))) \o
    depends_code("enhances_reldep_query", reldeps_filter("enhances", matched_reldeps(globs))) \o
    depends_code("supplements_reldep_query", reldeps_filter("supplements", matched_reldeps(globs))) \o
    depends_code("suggests_reldep_query", reldeps_filter("suggests", matched_reldeps(globs))) \o
    (IF with_resolved_nevras(exact)
     THEN resolve_code(globs, "result_query", "pkgs_from_resolved_nevras") \o
          depends_code("what_requires_resolved_nevras",
                       packages_filter("requires", "pkgs_from_resolved_nevras")) \o
          depends_code("recommends_pkg_query",
                       packages_filter("recommends", "pkgs_from_resolved_nevras")) \o
          depends_code("enhances_pkg_query",
                       packages_filter("enhances", "pkgs_from_resolved_nevras")) \o
          depends_code("supplements_pkg_query",
                       packages_filter("supplements", "pkgs_from_resolved_nevras")) \o
          depends_code("suggests_pkg_query",
                       packages_filter("suggests", "pkgs_from_resolved_nevras"))
     ELSE <<>>) \o
    <<Statement("assign", "result_query", "dependsquery"),
      EndScope({"dependsquery", "recommends_reldep_query", "enhances_reldep_query",
                "supplements_reldep_query", "suggests_reldep_query",
                "pkgs_from_resolved_nevras", "what_requires_resolved_nevras",
                "recommends_pkg_query", "enhances_pkg_query", "supplements_pkg_query",
                "suggests_pkg_query"})>>

\* --whatprovides: the copy and its filter, and then the branch on what the copy holds
whatprovides_code(patterns) ==
    <<Statement(copy_declaration, "provides_query", "result_query"),
      Filter("provides_query", [name |-> "provides", patterns |-> patterns])>>
whatprovides_branch(env, patterns) ==
    (IF value(env, "provides_query") # {}
     THEN <<Statement("assign", "result_query", "provides_query")>>
     ELSE <<Filter("result_query", [name |-> "file", patterns |-> patterns])>>) \o
    <<EndScope({"provides_query"})>>

\* --whatrequires
whatrequires_code(globs, exact) ==
    IF exact
    THEN <<Filter("result_query", reldeps_filter("requires", globs))>>
    ELSE <<Statement(copy_declaration, "requires_resolved", "result_query")>> \o
         resolve_code(globs, "result_query", "resolved_nevras") \o
         <<Filter("requires_resolved", packages_filter("requires", "resolved_nevras")),
           Filter("result_query", reldeps_filter("requires", globs)),
           Statement("union", "result_query", "requires_resolved"),
           EndScope({"requires_resolved", "resolved_nevras"})>>

\* the query only_src_query is a copy of
only_src_origin_mutant == "base_query"
only_src_origin == "result_query"

\* --srpm: the queries before the loop, and then the loop over what result_query holds
srpm_code ==
    <<Construct("srpms", {}),
      Statement(copy_declaration, "only_src_query", only_src_origin),
      Filter("only_src_query", [name |-> "arch", patterns |-> {"src"}])>>
srpm_loop(env) ==
    LET with_sourcerpm == {pkg \in value(env, "result_query") : pkg.sourcerpm # ""}
    IN  for_each(SetToSeq(with_sourcerpm),
                 [pkg \in with_sourcerpm |->
                     <<Statement(copy_declaration, "tmp_q", "only_src_query"),
                       Filter("tmp_q", [name |-> "name", patterns |-> {pkg.sourcerpm}]),
                       Filter("tmp_q", [name |-> "evr", patterns |-> {pkg.evr}]),
                       Statement("union", "srpms", "tmp_q"),
                       EndScope({"tmp_q"})>>]) \o
        <<Statement("assign", "result_query", "srpms"),
          EndScope({"srpms", "only_src_query"})>>

\* the parts of run() in their order; each is a stage of run() or a part of one
sections ==
    <<"construct", "specs", "duplicates", "installonly", "whatdepends", "whatprovides",
      "whatprovides_branch", "whatrequires", "srpm", "srpm_loop">>
stage_of(section) ==
    CASE section = "construct" -> "specs"
      [] section = "whatprovides_branch" -> "whatprovides"
      [] section = "srpm_loop" -> "srpm"
      [] OTHER -> section

\* the statements of a part, given the queries as they are when run() reaches it
section_code(section, env) ==
    CASE section = "construct" -> construct_code
      [] section = "specs" -> specs_code(pkg_specs)
      [] section = "duplicates" -> IF Given("duplicates") THEN duplicates_code ELSE <<>>
      [] section = "installonly" ->
             IF Given("installonly") THEN installonly_code("intersect") ELSE <<>>
      [] section = "whatdepends" ->
             IF Values("whatdepends") # {}
             THEN whatdepends_code(Values("whatdepends"), Given("exactdeps"))
             ELSE <<>>
      [] section = "whatprovides" ->
             IF Values("whatprovides") # {} THEN whatprovides_code(Values("whatprovides")) ELSE <<>>
      [] section = "whatprovides_branch" ->
             IF Values("whatprovides") # {}
             THEN whatprovides_branch(env, Values("whatprovides"))
             ELSE <<>>
      [] section = "whatrequires" ->
             IF Values("whatrequires") # {}
             THEN whatrequires_code(Values("whatrequires"), Given("exactdeps"))
             ELSE <<>>
      [] section = "srpm" -> IF Given("srpm") THEN srpm_code ELSE <<>>
      [] section = "srpm_loop" -> IF Given("srpm") THEN srpm_loop(env) ELSE <<>>

\* the statements of a list, executed one after the other and written to the
\* trace; the trace holds the statement just executed when the next one begins
RECURSIVE exec(_, _, _)
exec(code, stage, state) ==
    IF code = <<>> THEN state
    ELSE LET s == Head(code)
             after == exec_statement(state.env, s)
             next == [env |-> after,
                      trace |-> Append(state.trace,
                                       [stage |-> stage, op |-> s.op, dst |-> s.dst,
                                        view |-> view(after)])]
         IN  IF next.trace # <<>> THEN exec(Tail(code), stage, next) ELSE next

\* the parts of run(), one after the other
RECURSIVE run_sections(_, _)
run_sections(todo, state) ==
    IF todo = <<>> THEN state
    ELSE run_sections(Tail(todo),
                      exec(section_code(Head(todo), state.env), stage_of(Head(todo)), state))

\* the arguments of the command lines of this part
QueryArgUniverse ==
    {a \in ArgUniverse :
        \/ a.name \in {"srpm", "duplicates", "exactdeps"}
        \/ a.name \in {"whatdepends", "whatrequires"} /\ a.value = "cap"
        \/ a.name = "whatprovides"}

\* the packages of the repositories of this part
QueryUniverse ==
    {p \in Universe : p.name \in {"app", "dup"} \/ (p.name = "cap" /\ p.arch # "src")}

\* the command line is as long as the command lines of this part get
CommandLineFull == Cardinality(args) + Len(pkg_specs) >= MaxArgs

\* the argument parser meets a package spec
ParseSpec(spec) ==
    /\ rq.stage = "parsing"
    /\ ~CommandLineFull
    /\ pkg_specs' = Append(pkg_specs, spec)
    /\ UNCHANGED <<pkgs, query_run, run_trace, confVars, rqVars, loadVars, sackVars, lockVars,
                   setupVars, daemonVars>>

\* the argument parser accepts a named argument
ParseQueryArg(arg) == ~CommandLineFull /\ ParseArg(arg)

\* RepoqueryCommand::run(), after a configure() that did not throw
RunStatements ==
    /\ rq.stage = "configured"
    /\ rq.thrown = "none"
    /\ run_trace = <<>>
    /\ run_trace' = run_sections(sections, [env |-> NewEnv, trace |-> <<>>]).trace
    /\ UNCHANGED <<pkgs, query_run, pkg_specs, confVars, rqVars, loadVars, sackVars, lockVars,
                   setupVars, daemonVars>>

NextQueries ==
    \/ \E p \in QueryUniverse : AddPackage(p)
    \/ \E arg \in QueryArgUniverse : ParseQueryArg(arg)
    \/ \E spec \in SpecUniverse : ParseSpec(spec)
    \/ Configure
    \/ RunStatements

SpecQueries == Init /\ [][NextQueries]_vars

(***************************************************************************)
(* The D-Bus interface org.rpm.dnf.v0.rpm.Rpm, as its documentation states *)
(* it: each method reads the options it documents from the dictionary and  *)
(* looks at no other key.                                                  *)
(***************************************************************************)
RpmMethods == {"list", "install", "upgrade", "remove", "distro_sync", "downgrade", "reinstall"}

\* the options each method documents
Documented(method) ==
    IF method = "list"
    THEN {"package_attrs", "with_nevra", "with_provides", "with_filenames", "with_binaries",
          "with_src", "icase", "patterns", "scope", "arch", "repo", "latest-limit",
          "whatprovides", "whatdepends", "whatrequires", "whatrecommends", "whatenhances",
          "whatsuggests", "whatsupplements", "whatobsoletes", "whatconflicts"}
    ELSE IF method = "install" THEN {"repo_ids", "skip_broken", "skip_unavailable"}
    ELSE IF method = "upgrade" THEN {"repo_ids"}
    ELSE {}

\* the entries a dictionary of the model may hold: documented ones with a value
\* other than the default, and one that no method documents
OptionEntries ==
    {[key |-> "scope", value |-> "installed"], [key |-> "scope", value |-> "available"],
     [key |-> "with_src", value |-> "false"], [key |-> "patterns", value |-> "cap"],
     [key |-> "repo_ids", value |-> "fedora"], [key |-> "skip_broken", value |-> "true"],
     [key |-> "unknown_option", value |-> "x"]}
OptionKeys == {e.key : e \in OptionEntries}

\* the default of an option
DefaultValue(key) ==
    IF key = "scope" THEN "all"
    ELSE IF key = "with_src" THEN "true"
    ELSE IF key = "skip_broken" THEN "false"
    ELSE ""

\* the dictionaries: at most MaxOptions entries, no key twice
OptionDicts ==
    {d \in SUBSET OptionEntries :
        /\ Cardinality(d) <= MaxOptions
        /\ \A e1, e2 \in d : e1.key = e2.key => e1 = e2}

\* the lists of package specifications
SpecLists == {<<"cap">>, <<"app", "cap">>}

\* the value of a key of the dictionary, or the default when the key is missing
key_value_map_get(options, key, default) ==
    IF \E e \in options : e.key = key
    THEN (CHOOSE e \in options : e.key = key).value
    ELSE default

\* the keys a method looks up
OptionsReadMutant(method) == Documented("list") \cup Documented("install")
OptionsRead(method) == Documented(method)

\* the values a method works with
Settings(method, options) ==
    [key \in OptionsRead(method) \cap OptionKeys |->
        key_value_map_get(options, key, DefaultValue(key))]

\* a setting, for a method that may not have it
Setting(settings, key) == IF key \in DOMAIN settings THEN settings[key] ELSE DefaultValue(key)

\* list: the packages that match the filters
list_data(options) ==
    LET settings == Settings("list", options)
    IN  {[name |-> p.name, evr |-> p.evr, arch |-> p.arch] :
            p \in {q \in Universe :
                     /\ Setting(settings, "scope") = "installed" => q.repo_id = "@System"
                     /\ Setting(settings, "scope") = "available" => q.repo_id # "@System"
                     /\ Setting(settings, "with_src") = "false" => q.arch # "src"
                     /\ Setting(settings, "patterns") # "" => q.name = Setting(settings, "patterns")}}

\* install, upgrade, ...: the job the method adds to the goal of the session
goal_job(method, specs, options) ==
    Ptr([action |-> method, specs |-> specs, settings |-> Settings(method, options)])

\* the method list
RpmList(options) ==
    /\ rpm_call' = [NoRpmCall EXCEPT !.method = "list", !.options = options,
                                     !.data = list_data(options)]
    /\ UNCHANGED <<system, group_call>>
    /\ UNCHANGED <<confVars, rqVars, loadVars, sackVars, lockVars, setupVars, runVars>>

\* one of the methods that mark packages for an action
RpmMark(method, specs, options) ==
    /\ rpm_call' = [NoRpmCall EXCEPT !.method = method, !.specs = specs, !.options = options,
                                     !.job = goal_job(method, specs, options)]
    /\ UNCHANGED <<system, group_call>>
    /\ UNCHANGED <<confVars, rqVars, loadVars, sackVars, lockVars, setupVars, runVars>>

RpmInstall(specs, options) == RpmMark("install", specs, options)
RpmUpgrade(specs, options) == RpmMark("upgrade", specs, options)
RpmRemove(specs, options) == RpmMark("remove", specs, options)
RpmDistroSync(specs, options) == RpmMark("distro_sync", specs, options)
RpmDowngrade(specs, options) == RpmMark("downgrade", specs, options)
RpmReinstall(specs, options) == RpmMark("reinstall", specs, options)

NextRpm ==
    \/ \E options \in OptionDicts : RpmList(options)
    \/ \E specs \in SpecLists, options \in OptionDicts : RpmInstall(specs, options)
    \/ \E specs \in SpecLists, options \in OptionDicts : RpmUpgrade(specs, options)
    \/ \E specs \in SpecLists, options \in OptionDicts : RpmRemove(specs, options)
    \/ \E specs \in SpecLists, options \in OptionDicts : RpmDistroSync(specs, options)
    \/ \E specs \in SpecLists, options \in OptionDicts : RpmDowngrade(specs, options)
    \/ \E specs \in SpecLists, options \in OptionDicts : RpmReinstall(specs, options)

SpecRpm == Init /\ [][NextRpm]_vars

(***************************************************************************)
(* dnf5 group install and dnf5 group remove, as the manual page states     *)
(* them, on a system of four packages and two groups that share a package. *)
(***************************************************************************)
GroupPackages == {"a", "b", "c", "d"}
GroupIds == {"g1", "g2"}

\* the packages of a group
MembersOf(group) == IF group = "g1" THEN {"a", "b"} ELSE {"b", "c"}

\* the names of the installed packages, and the reason a package was installed for
InstalledNames(sys) == {p.name : p \in sys.packages}
ReasonOf(sys, name) == (CHOOSE p \in sys.packages : p.name = name).reason

\* the packages `group remove` takes off the system: those of the group that
\* belong to no other installed group and were not installed by the user
RemovedWithGroupMutant(sys, group) ==
    {n \in MembersOf(group) \cap InstalledNames(sys) : ReasonOf(sys, n) # "user"}
RemovedWithGroup(sys, group) ==
    {n \in MembersOf(group) \cap InstalledNames(sys) :
        /\ ReasonOf(sys, n) # "user"
        /\ \A other \in sys.groups \ {group} : n \notin MembersOf(other)}

\* the user installs a package, or a package comes in as a dependency
InstallPackage(name, reason) ==
    /\ name \notin InstalledNames(system)
    /\ system' = [system EXCEPT !.packages = @ \cup {[name |-> name, reason |-> reason]}]
    /\ group_call' = NoGroupCall
    /\ UNCHANGED rpm_call
    /\ UNCHANGED <<confVars, rqVars, loadVars, sackVars, lockVars, setupVars, runVars>>

\* dnf5 group install [--no-packages] group
GroupInstall(group, no_packages) ==
    /\ group \notin system.groups
    /\ system' =
           [groups |-> system.groups \cup {group},
            packages |->
                IF no_packages
                THEN system.packages
                ELSE system.packages \cup
                     {[name |-> n, reason |-> "group"] :
                          n \in MembersOf(group) \ InstalledNames(system)}]
    /\ group_call' = [op |-> "install", group |-> group, no_packages |-> no_packages,
                      before |-> system]
    /\ UNCHANGED rpm_call
    /\ UNCHANGED <<confVars, rqVars, loadVars, sackVars, lockVars, setupVars, runVars>>

\* dnf5 group remove [--no-packages] group
GroupRemove(group, no_packages) ==
    /\ group \in system.groups
    /\ system' =
           [groups |-> system.groups \ {group},
            packages |->
                IF no_packages
                THEN system.packages
                ELSE {p \in system.packages : p.name \notin RemovedWithGroup(system, group)}]
    /\ group_call' = [op |-> "remove", group |-> group, no_packages |-> no_packages,
                      before |-> system]
    /\ UNCHANGED rpm_call
    /\ UNCHANGED <<confVars, rqVars, loadVars, sackVars, lockVars, setupVars, runVars>>

NextGroup ==
    \/ \E name \in GroupPackages, reason \in {"user", "dependency"} : InstallPackage(name, reason)
    \/ \E group \in GroupIds, no_packages \in BOOLEAN : GroupInstall(group, no_packages)
    \/ \E group \in GroupIds, no_packages \in BOOLEAN : GroupRemove(group, no_packages)

SpecGroup == Init /\ [][NextGroup]_vars

(***************************************************************************)
(* Claims about create_sorted_file_list.                                   *)
(***************************************************************************)
\* a directory entry that create_sorted_file_list may list: a regular file of
\* directory `dir` whose extension is the requested one
Eligible(e, dir, file_extension) ==
    /\ e \in fs
    /\ e.dir = dir
    /\ e.regular
    /\ LastDot(e.name) > 1
    /\ SubSeq(e.name, LastDot(e.name), Len(e.name)) = file_extension

\* the first position of the vector whose directory holds an eligible file called `name`
FirstDirWith(directories, name, file_extension) ==
    CHOOSE i \in 1..Len(directories) :
        /\ \E e \in fs : e.name = name /\ Eligible(e, directories[i], file_extension)
        /\ \A j \in 1..(i - 1) :
               ~\E e \in fs : e.name = name /\ Eligible(e, directories[j], file_extension)

\* C1: the result of create_sorted_file_list is in strictly ascending order of
\* file name, compared byte by byte: every entry's name is less than the next one's.
C1_SortedByFilename ==
    csfl.called =>
        \A i \in 1..(Len(csfl.paths) - 1) :
            StrLess(csfl.paths[i].name, csfl.paths[i + 1].name)

\* a call that returned "B.conf" before "a.conf", taken from two different directories
C1_Witness ==
    /\ csfl.called
    /\ Len(csfl.paths) >= 2
    /\ csfl.paths[1].name = Name_B_conf
    /\ csfl.paths[2].name = Name_a_conf
    /\ csfl.paths[1].dir # csfl.paths[2].dir

\* C2: a file name found in several directories is listed once, from the first
\* of them in the input vector; the result holds only regular files with the
\* requested extension, and no file name twice.
C2_FirstDirectoryWins ==
    csfl.called =>
        LET directories == csfl.directories
            ext == csfl.file_extension
            paths == csfl.paths
        IN  /\ \A i \in 1..Len(directories), e \in fs :
                   Eligible(e, directories[i], ext) =>
                       /\ Cardinality({k \in 1..Len(paths) : paths[k].name = e.name}) = 1
                       /\ \E k \in 1..Len(paths) :
                              /\ paths[k].name = e.name
                              /\ paths[k].dir = directories[FirstDirWith(directories, e.name, ext)]
            /\ \A k \in 1..Len(paths) :
                   \E i \in 1..Len(directories), e \in fs :
                       /\ Eligible(e, directories[i], ext)
                       /\ e.name = paths[k].name
                       /\ e.dir = paths[k].dir
            /\ \A k, l \in 1..Len(paths) : paths[k].name = paths[l].name => k = l

\* a call on two different directories that both hold an eligible file of one
\* name, together with an entry that is not listed
C2_Witness ==
    /\ csfl.called
    /\ Len(csfl.directories) = 2
    /\ csfl.directories[1] # csfl.directories[2]
    /\ \E e1, e2 \in fs :
           /\ e1.name = e2.name
           /\ Eligible(e1, csfl.directories[1], csfl.file_extension)
           /\ Eligible(e2, csfl.directories[2], csfl.file_extension)
           /\ csfl.paths = <<[dir |-> e1.dir, name |-> e1.name]>>
    /\ \E e \in fs : ~e.regular /\ e.dir = csfl.directories[1]

\* C3: the result does not depend on the order in which the directory iterator
\* yields the entries: every enumeration order gives the sequence that was returned.
C3_EnumerationOrderIrrelevant ==
    csfl.called =>
        \A enum \in Enums(csfl.directories) :
            create_sorted_file_list(enum, csfl.file_extension) = csfl.paths

\* a call on a directory that holds two listed files, so that two enumeration
\* orders exist that reach the list in different orders
C3_Witness ==
    /\ csfl.called
    /\ Len(csfl.paths) >= 2
    /\ \E i \in 1..Len(csfl.directories) :
           Cardinality({e \in fs : Eligible(e, csfl.directories[i], csfl.file_extension)}) >= 2

(***************************************************************************)
(* Claims about Base::load_config and Base::with_config_file_path.         *)
(***************************************************************************)
\* the parser.read() calls of the last load_config() without the one of the main file
DropInReads ==
    LET reads == base_call.reads
        main == load_config_conf_file_path(config)
    IN  IF reads # <<>> /\ reads[Len(reads)] = main
        THEN SubSeq(reads, 1, Len(reads) - 1)
        ELSE reads

\* C4: load_config() reads every regular '.conf' file of the two drop-in
\* directories (one per file name) in ascending order of file name, and reads
\* the main configuration file last, exactly when its path has a priority of
\* COMMANDLINE or more, or the file exists.
C4_DropInsSortedMainLast ==
    base_call.op = "load_config" =>
        LET reads == base_call.reads
            main == load_config_conf_file_path(config)
            dirs == load_config_directories(config)
        IN  /\ (reads # <<>> /\ reads[Len(reads)] = main)
                   <=> (config.config_file_path_priority >= PRIORITY_COMMANDLINE \/ exists(main))
            /\ \A i \in 1..Len(DropInReads) :
                   /\ DropInReads[i] # main
                   /\ \E k \in 1..Len(dirs) : Eligible([dir |-> DropInReads[i].dir,
                                                         name |-> DropInReads[i].name,
                                                         regular |-> TRUE], dirs[k], ExtConf)
            /\ \A i \in 1..(Len(DropInReads) - 1) :
                   StrLess(DropInReads[i].name, DropInReads[i + 1].name)
            /\ \A k \in 1..Len(dirs), e \in fs :
                   Eligible(e, dirs[k], ExtConf) =>
                       \E i \in 1..Len(DropInReads) : DropInReads[i].name = e.name

\* load_config() read two drop-ins of different directories and then the main
\* file, with a file of another extension left out
C4_Witness ==
    /\ base_call.op = "load_config"
    /\ Len(base_call.reads) = 3
    /\ base_call.reads[1].dir # base_call.reads[2].dir
    /\ base_call.reads[3] = load_config_conf_file_path(config)

\* C5: with_config_file_path(func) lets a MissingConfigError or an
\* InaccessibleConfigError of func through exactly when config_file_path has a
\* priority of COMMANDLINE or more, and returns normally otherwise; load_config()
\* neither reads nor reports a main configuration file that does not exist when
\* its path has a lower priority.
C5_MissingConfigTolerated ==
    /\ (base_call.op = "with_config_file_path"
         /\ base_call.func_outcome \in {"MissingConfigError", "InaccessibleConfigError"}) =>
           IF config.config_file_path_priority >= PRIORITY_COMMANDLINE
           THEN base_call.thrown = base_call.func_outcome
           ELSE base_call.thrown = "none"
    /\ (base_call.op = "load_config"
         /\ config.config_file_path_priority < PRIORITY_COMMANDLINE
         /\ ~exists(load_config_conf_file_path(config))) =>
           /\ base_call.thrown = "none"
           /\ \A i \in 1..Len(base_call.reads) :
                  base_call.reads[i] # load_config_conf_file_path(config)

\* func threw MissingConfigError for a path given on the command line, and
\* with_config_file_path() threw it on
C5_Witness ==
    /\ base_call.op = "with_config_file_path"
    /\ base_call.func_outcome = "MissingConfigError"
    /\ config.config_file_path_priority = PRIORITY_COMMANDLINE
    /\ base_call.thrown = "MissingConfigError"

(***************************************************************************)
(* Claims about RepoqueryCommand::configure.                               *)
(***************************************************************************)
\* C6: whenever configure() has run with --exactdeps given and neither
\* --whatrequires nor --whatdepends, it has thrown
\* ArgumentParserMissingDependentArgumentError, whatever else was given.  It is
\* stated for the command lines without --querytags, for which configure()
\* looks at the options at all.
C6_ExactdepsAlwaysRejected ==
    (rq.stage = "configured" /\ ~Given("querytags") /\ Given("exactdeps")
     /\ Values("whatrequires") = {} /\ Values("whatdepends") = {}) =>
        rq.thrown = "ArgumentParserMissingDependentArgumentError"

\* the long names of the formatting options that may not be combined
FormattingLongNames ==
    {"info", "querytags", "queryformat", "changelogs", "conflicts", "depends", "enhances",
     "obsoletes", "provides", "recommends", "requires", "requires-pre", "suggests",
     "supplements", "files", "sourcerpm", "location"}

\* the names of the arguments of the model
ArgNames == {a.name : a \in ArgUniverse}

\* each of the formatting options is an argument of the command, and every two
\* different ones are registered as conflicting with each other
FormattingRegisteredAsConflicting ==
    /\ \A l \in FormattingLongNames : \E n \in ArgNames : long_name(n) = l
    /\ \A a, b \in ArgNames :
           (long_name(a) \in FormattingLongNames /\ long_name(b) \in FormattingLongNames /\ a # b)
               => b \in ConflictArgs(a)

\* C14: each of the formatting options is an argument of the command, every two
\* different ones are registered as conflicting with each other, and so the
\* parser never accepts two of them on one command line.
C14_OneFormattingAtATime ==
    /\ FormattingRegisteredAsConflicting
    /\ Cardinality({x \in args : long_name(x.name) \in FormattingLongNames}) <= 1

\* --requires-pre was accepted and the next argument, which can only be another
\* formatting option, was rejected as conflicting
C14_Witness ==
    /\ rq.stage = "parse_failed"
    /\ rq.thrown = "ArgumentParserConflictingArgumentsError"
    /\ args = {[name |-> "requires_pre", value |-> "requires_pre"]}

\* the options that need the system repository
SystemRepoOptions ==
    {"installed", "userinstalled", "duplicates", "leaves", "unneeded", "extras", "upgrades",
     "installonly"}

\* C15: after configure() without --querytags the system repository is loaded
\* exactly when one of the options that need it is set; the available
\* repositories are ENABLED exactly when --available was given, or none of
\* those options is set, or --extras or --upgrades is set, and NONE otherwise;
\* so at least one of the two sources is loaded.
C15_SourcesLoaded ==
    (rq.stage = "configured" /\ ~Given("querytags")) =>
        /\ rq.load_system_repo = "TRUE" <=> \E n \in SystemRepoOptions : Given(n)
        /\ rq.load_system_repo \in {"TRUE", "FALSE"}
        /\ rq.load_available_repos = "ENABLED" <=>
               \/ Given("available")
               \/ ~\E n \in SystemRepoOptions : Given(n)
               \/ Given("extras")
               \/ Given("upgrades")
        /\ rq.load_available_repos \in {"ENABLED", "NONE"}
        /\ (~Given("available") /\ ~\E n \in SystemRepoOptions : Given(n)) =>
               (rq.load_system_repo = "FALSE" /\ rq.load_available_repos = "ENABLED")
        /\ (Given("extras") \/ Given("upgrades")) =>
               (rq.load_system_repo = "TRUE" /\ rq.load_available_repos = "ENABLED")
        /\ rq.load_system_repo = "TRUE" \/ rq.load_available_repos = "ENABLED"

\* configure() ran with --extras and another option that needs the system
\* repository: both sources are loaded
C15_Witness ==
    /\ rq.stage = "configured"
    /\ Given("extras")
    /\ Given("installonly")
    /\ rq.load_system_repo = "TRUE"
    /\ rq.load_available_repos = "ENABLED"

(***************************************************************************)
(* Claims about RepoSack::update_and_load_repos.                           *)
(***************************************************************************)
MetadataRank(m) == IF m = "none" THEN 0 ELSE IF m = "downloading" THEN 1 ELSE 2
LoadRank(l) == IF l = "none" THEN 0 ELSE IF l = "loading" THEN 1 ELSE 2
Queued(r) == \E k \in 1..Len(hist.queued_order) : hist.queued_order[k] = r

\* load() runs only on a repository whose download has ended and which was queued
LoadedAfterDownload ==
    \A r \in RepoIds :
        /\ repo[r].load # "none" => (repo[r].metadata = "downloaded" /\ Queued(r))
        /\ repo[r].load_count <= 1

\* no step takes a repository's metadata or load state backwards
NeverBackwards ==
    \A r \in RepoIds :
        /\ MetadataRank(repo'[r].metadata) >= MetadataRank(repo[r].metadata)
        /\ LoadRank(repo'[r].load) >= LoadRank(repo[r].load)

\* C7: a repository is loaded only after its download_metadata() has returned
\* and it was queued, it is loaded at most once per call, and its state never
\* goes backwards.
C7_LifecycleInOrder == [](LoadedAfterDownload) /\ [][NeverBackwards]_vars

\* the loader is in load() of a repository while the calling thread has more to do
C7_Witness ==
    /\ \E r \in RepoIds : repo[r].load = "loading" /\ repo[r].load_count = 1
    /\ main_thread.pc = "iterate"
    /\ main_thread.i <= Len(ul_repos)

Returned == main_thread.pc = "returned"

\* C8: a call of update_and_load_repos returns, and when it has returned every
\* repository of `repos` is loaded, the queue is empty and the loader has ended.
C8_TerminatesAllLoaded ==
    /\ (main_thread.pc # "idle") ~> Returned
    /\ [](Returned =>
            /\ \A i \in 1..Len(ul_repos) : repo[ul_repos[i]].load = "loaded"
            /\ load_queue = <<>>
            /\ load_repos_thread.pc = "ended")

\* a call on MaxRepos repositories has returned
C8_Witness ==
    /\ Returned
    /\ Len(ul_repos) = MaxRepos
    /\ \A i \in 1..Len(ul_repos) : repo[ul_repos[i]].load = "loaded"

\* C9: at most one download is in progress, the downloads start in the
\* iteration order of `repos`, and the loads start in the order of queueing.
C9_SequentialDownloadsFifoLoads ==
    /\ Cardinality({r \in RepoIds : repo[r].metadata = "downloading"}) <= 1
    /\ Len(hist.download_order) <= Len(ul_repos)
    /\ hist.download_order = SubSeq(ul_repos, 1, Len(hist.download_order))
    /\ Len(hist.load_order) <= Len(hist.queued_order)
    /\ hist.load_order = SubSeq(hist.queued_order, 1, Len(hist.load_order))

\* a repository is being loaded while a later one of `repos` is being downloaded,
\* and an earlier one is loaded already
C9_Witness ==
    \E i, j, k \in 1..Len(ul_repos) :
        /\ i < j /\ j < k
        /\ repo[ul_repos[i]].load = "loaded"
        /\ repo[ul_repos[j]].load = "loading"
        /\ repo[ul_repos[k]].metadata = "downloading"

(***************************************************************************)
(* Claims about the system and the command line repository.                *)
(***************************************************************************)
ReposOfType(type) == {r \in sack : r.type = type}

\* before the first get_..._repo() there is none and has_..._repo() is false;
\* after it there is exactly one, the pointer points to it, has_..._repo() is true
OneSpecialRepo ==
    /\ IF sack_calls.system = 0
       THEN ~has_system_repo /\ ReposOfType("SYSTEM") = {}
       ELSE /\ has_system_repo
            /\ Cardinality(ReposOfType("SYSTEM")) = 1
            /\ \E r \in ReposOfType("SYSTEM") : system_repo = Ptr(r.obj)
    /\ IF sack_calls.cmdline = 0
       THEN ~has_cmdline_repo /\ ReposOfType("COMMANDLINE") = {}
       ELSE /\ has_cmdline_repo
            /\ Cardinality(ReposOfType("COMMANDLINE")) = 1
            /\ \E r \in ReposOfType("COMMANDLINE") : cmdline_repo = Ptr(r.obj)

\* the repository stays the same once it exists, and each call returns it
SpecialRepoKept ==
    /\ has_system_repo => (has_system_repo' /\ system_repo' = system_repo)
    /\ has_cmdline_repo => (has_cmdline_repo' /\ cmdline_repo' = cmdline_repo)
    /\ sack_calls'.system > sack_calls.system =>
           /\ sack_calls'.returned = system_repo'
           /\ has_system_repo => sack' = sack
    /\ sack_calls'.cmdline > sack_calls.cmdline =>
           /\ sack_calls'.returned = cmdline_repo'
           /\ has_cmdline_repo => sack' = sack

\* C10: a RepoSack has at most one system repository: has_system_repo() is
\* false on a new sack, the first get_system_repo() creates the repository,
\* every later call returns the same one without creating another, and
\* has_system_repo() stays true; likewise for the command line repository.
C10_OneSystemAndCmdlineRepo == [](OneSpecialRepo) /\ [][SpecialRepoKept]_vars

\* get_system_repo() was called more than once and get_cmdline_repo() too,
\* with other repositories created in between
C10_Witness ==
    /\ sack_calls.system >= 2
    /\ sack_calls.cmdline >= 2
    /\ sack_calls.returned = system_repo
    /\ Cardinality(sack) >= 4

(***************************************************************************)
(* Claims about the Base lock.                                             *)
(***************************************************************************)
\* a lock() call returns in this step
LockReturns == \E t \in Threads : thread[t].pc = "lock_store" /\ thread'[t].pc = "idle"

UnlockChecksLocked(t) == thread[t].pc = "unlock_check1" /\ thread'[t].pc # "unlock_check1"
UnlockChecksOwner(t) == thread[t].pc = "unlock_check2" /\ thread'[t].pc # "unlock_check2"

\* the unlock() call of thread t ends with a user assertion error in this step
\* and the lock is as it was
UnlockFails(t) ==
    /\ thread'[t].pc = "idle"
    /\ thread'[t].result = "UserAssertionError"
    /\ locked_base' = locked_base
    /\ locked_base_mutex' = locked_base_mutex
    /\ lock_owner' = lock_owner

\* C12: an unlock() that finds no Base holding the lock, or finds another Base
\* than the one it is called on holding it, ends with a user assertion error
\* and leaves locked_base and the mutex as they are.
C12_UnlockOfNonOwnerFails ==
    [][\A t \in Threads :
          /\ (UnlockChecksLocked(t) /\ locked_base = NULL) => UnlockFails(t)
          /\ (UnlockChecksOwner(t) /\ locked_base # Ptr(thread[t].base)) => UnlockFails(t)]_vars

\* an unlock() of Base B failed while Base A held the lock, and the lock is as it was
C12_Witness ==
    /\ thread["t2"].result = "UserAssertionError"
    /\ thread["t2"].base = "B"
    /\ locked_base = Ptr("A")
    /\ locked_base_mutex = Ptr("t1")

(***************************************************************************)
(* Claims about Base::setup.                                               *)
(***************************************************************************)
\* the setup() calls so far that created the pool
PoolCreatingCalls ==
    {k \in 1..Len(base_state.calls) : base_state.calls[k] \in {"returned", "vars_throw"}}

\* is_initialized() tells whether a setup() call has created the pool, at most
\* one call has done so, and every call after it failed the assertion
InitializedBySetup ==
    /\ is_initialized <=> PoolCreatingCalls # {}
    /\ Cardinality(PoolCreatingCalls) <= 1
    /\ \A k \in PoolCreatingCalls : \A j \in (k + 1)..Len(base_state.calls) :
           base_state.calls[j] = "UserAssertionError"

\* is_initialized() stays true, and a setup() call made while it is true changes
\* nothing but the record of the calls
InitializedForGood ==
    is_initialized =>
        /\ is_initialized'
        /\ base_state'.calls # base_state.calls =>
               /\ config' = config
               /\ base_state' = [base_state EXCEPT !.calls = Append(@, "UserAssertionError")]

\* C13: setup() creates the pool at most once: is_initialized() is false until
\* a setup() call has created it and true from then on, and every setup() call
\* made while it is true fails the assertion and changes no option and no state.
C13_SetupOnce == [](InitializedBySetup) /\ [][InitializedForGood]_vars

\* setup() has succeeded with the installroot applied, and a later call has failed
C13_Witness ==
    /\ Len(base_state.calls) >= 2
    /\ base_state.calls[Len(base_state.calls) - 1] = "returned"
    /\ base_state.calls[Len(base_state.calls)] = "UserAssertionError"
    /\ ~config.use_host_config
    /\ base_state.reposdir.priority = PRIORITY_INSTALLROOT

(***************************************************************************)
(* Claims about RepoqueryCommand::run.                                     *)
(***************************************************************************)
\* the source package of p: architecture "src", p's source name, p's evr
IsSourceOf(s, p) == s.arch = "src" /\ s.name = p.sourcerpm /\ s.evr = p.evr

\* C16: with --srpm, the source package of every package of the filtered
\* result that names a source RPM is in the output when the loaded repositories
\* hold it, whether or not the source package passed the filters itself.
C16_SrpmOfEveryFilteredPackage ==
    (query_run.done /\ Given("srpm")) =>
        \A p \in query_run.filtered : p.sourcerpm # "" =>
            \A s \in base_query : IsSourceOf(s, p) => s \in query_run.result

\* the packages a pattern of installonlypkgs is provided by
MatchedByInstallonly(p) == \E pattern \in INSTALLONLYPKGS : pattern \in p.provides

\* C17: with --duplicates no package of the result is an installonly package,
\* with --installonly every package of the result is one, and with both the
\* result is empty.
C17_DuplicatesWithoutInstallonly ==
    query_run.done =>
        /\ Given("duplicates") => \A p \in query_run.result : ~MatchedByInstallonly(p)
        /\ Given("installonly") => \A p \in query_run.result : MatchedByInstallonly(p)
        /\ (Given("duplicates") /\ Given("installonly")) => query_run.result = {}

\* --duplicates gave the two versions of an ordinary package while two versions
\* of an installonly package were installed too
C17_Witness ==
    /\ query_run.done
    /\ Given("duplicates")
    /\ ~Given("installonly")
    /\ query_run.result # {}
    /\ Cardinality({p \in base_query : MatchedByInstallonly(p)}) = 2

\* package p has a dependency of one of the five kinds on one of the capabilities
DependsOnCapability(p, capabilities) ==
    \E k \in DepKinds : \E c \in capabilities : c \in p.deps[k]

\* package p has a dependency of one of the five kinds that a package of the
\* set, which the capabilities name, provides
DependsOnNamedPackage(p, capabilities, query) ==
    \E k \in DepKinds : \E o \in query : o.name \in capabilities /\ p.deps[k] \cap o.provides # {}

\* the result of the --whatdepends stage on a query, by the dependencies of each package
ExpectedWhatdepends(query, capabilities, exact) ==
    {p \in query :
        \/ DependsOnCapability(p, capabilities)
        \/ ~exact /\ DependsOnNamedPackage(p, capabilities, query)}

\* C18: the --whatdepends stage keeps the packages that depend, in one of the
\* five kinds, on a capability of the list or, without --exactdeps, on what a
\* package named by the list provides; the result with --exactdeps is a subset
\* of the result without it, and both are subsets of the query the stage started from.
C18_WhatdependsUnion ==
    (query_run.done /\ Values("whatdepends") # {}) =>
        LET start == query_run.before_whatdepends
            caps == Values("whatdepends")
        IN  /\ query_run.filtered = ExpectedWhatdepends(start, caps, Given("exactdeps"))
            /\ whatdepends_filter(start, caps, TRUE) = ExpectedWhatdepends(start, caps, TRUE)
            /\ whatdepends_filter(start, caps, FALSE) = ExpectedWhatdepends(start, caps, FALSE)
            /\ whatdepends_filter(start, caps, TRUE) \subseteq whatdepends_filter(start, caps, FALSE)
            /\ whatdepends_filter(start, caps, FALSE) \subseteq start

\* --whatdepends cap without --exactdeps gave a package that requires "cap" and
\* one that recommends what the package "cap" provides, and --exactdeps would
\* have given fewer
C18_Witness ==
    /\ query_run.done
    /\ Values("whatdepends") = {"cap"}
    /\ ~Given("exactdeps")
    /\ \E p \in query_run.filtered : "cap" \in p.deps["requires"]
    /\ \E p \in query_run.filtered : ~DependsOnCapability(p, {"cap"})
    /\ whatdepends_filter(query_run.before_whatdepends, {"cap"}, TRUE) # query_run.filtered

(***************************************************************************)
(* Claims about the D-Bus interface org.rpm.dnf.v0.rpm.Rpm.                *)
(***************************************************************************)
\* the entries of the dictionary of the last call that its method documents
DocumentedEntries == {e \in rpm_call.options : e.key \in Documented(rpm_call.method)}

\* C19: a call of a method of the interface does not fail because of keys that
\* the method does not document, and its reply and the job it adds are those of
\* the call with the dictionary without these keys.
C19_UnknownOptionsIgnored ==
    rpm_call.method # "none" =>
        /\ rpm_call.error = "none"
        /\ rpm_call.method = "list" =>
               (rpm_call.data = list_data(DocumentedEntries) /\ rpm_call.job = NULL)
        /\ rpm_call.method # "list" =>
               rpm_call.job = goal_job(rpm_call.method, rpm_call.specs, DocumentedEntries)

\* upgrade was called with repo_ids, which it documents, with skip_broken, which
\* only install documents, and with a key that no method documents
C19_Witness ==
    /\ rpm_call.method = "upgrade"
    /\ {e.key : e \in rpm_call.options} = {"repo_ids", "skip_broken", "unknown_option"}
    /\ rpm_call.job # NULL

(***************************************************************************)
(* Claims about the group command.                                         *)
(***************************************************************************)
\* the packages the last group command took off the system, and those it put on it
RemovedByCall == InstalledNames(group_call.before) \ InstalledNames(system)
InstalledByCall == InstalledNames(system) \ InstalledNames(group_call.before)

\* C20: group remove marks the group removed and takes off only packages of
\* the group that are in no other installed group and were not installed by the
\* user; a user-installed package and a package of another installed group
\* stay; with --no-packages group remove and group install change the groups only.
C20_GroupRemoveKeepsOthers ==
    /\ group_call.op = "remove" =>
           /\ group_call.group \notin system.groups
           /\ system.groups = group_call.before.groups \ {group_call.group}
           /\ InstalledByCall = {}
           /\ \A n \in RemovedByCall :
                  /\ n \in MembersOf(group_call.group)
                  /\ ReasonOf(group_call.before, n) # "user"
                  /\ \A other \in group_call.before.groups \ {group_call.group} :
                         n \notin MembersOf(other)
    /\ (group_call.op # "none" /\ group_call.no_packages) =>
           system.packages = group_call.before.packages
    /\ group_call.op = "install" =>
           (group_call.group \in system.groups /\ RemovedByCall = {})

\* group remove of g1 took "a" off the system and left "b", which the installed
\* group g2 holds too, and the user-installed "d"
C20_Witness ==
    /\ group_call.op = "remove"
    /\ group_call.group = "g1"
    /\ "g2" \in system.groups
    /\ RemovedByCall = {"a"}
    /\ "b" \in InstalledNames(system)
    /\ ReasonOf(system, "b") # "user"
    /\ "d" \in InstalledNames(system)


(***************************************************************************)
(* Claims about the order of the stages of RepoqueryCommand::run().        *)
(***************************************************************************)
\* the orders in which the stages of a sequence can be applied
StageOrders(stages) ==
    {order \in [1..Len(stages) -> {stages[i] : i \in 1..Len(stages)}] :
        \A i, j \in 1..Len(stages) : i # j => order[i] # order[j]}

\* C21: the filters run() applies before the transforms are order independent:
\* applied in any order to the base query, the enabled filters give the set
\* that run() gets in its own order.
C21_FiltersOrderIndependent ==
    query_run.done =>
        \A order \in StageOrders(filter_stages) :
            apply_filters(order, base_query) = query_run.filtered


(***************************************************************************)
(* Claims about the queries of RepoqueryCommand::run().                    *)
(***************************************************************************)
\* the statements of a stage in the trace, and result_query before and after them
StageEntries(stage) == {i \in 1..Len(run_trace) : run_trace[i].stage = stage}
FirstOf(stage) == CHOOSE i \in StageEntries(stage) : \A j \in StageEntries(stage) : i <= j
LastOf(stage) == CHOOSE i \in StageEntries(stage) : \A j \in StageEntries(stage) : j <= i
ResultBefore(stage) == run_trace[FirstOf(stage) - 1].view["result_query"]
ResultAfter(stage) == run_trace[LastOf(stage)].view["result_query"]
PrintedResult == run_trace[Len(run_trace)].view["result_query"]

\* result_query after the step of the package specs, had the command line held `specs`
ResultOfSpecs(specs) ==
    LET constructed == exec(construct_code, "specs", [env |-> NewEnv, trace |-> <<>>])
    IN  value(exec(specs_code(specs), "specs", constructed).env, "result_query")

\* the specs of the command line, and the command lines no longer than it with
\* the same specs, in any order and with any repetitions
SpecsGiven == {pkg_specs[i] : i \in 1..Len(pkg_specs)}
SameSpecs ==
    {other \in UNION {[1..n -> SpecsGiven] : n \in 1..Len(pkg_specs)} :
        {other[i] : i \in DOMAIN other} = SpecsGiven}

\* C22: with no package specs result_query is the base query after the first
\* step of run(); with specs it is the union, over the specs, of the packages of
\* the base query the spec resolves to, and the command-line packages the base
\* query contains.  The same specs in another order or repeated give the same
\* set, and so does the whole step done twice.
C22_SpecsUnion ==
    run_trace # <<>> =>
        /\ ResultAfter("specs") =
               IF pkg_specs = <<>> THEN base_query
               ELSE (cmdline_packages \cap base_query) \cup
                    UNION {resolve_pkg_spec(base_query, spec) : spec \in SpecsGiven}
        /\ \A other \in SameSpecs : ResultOfSpecs(other) = ResultAfter("specs")
        /\ ResultOfSpecs(pkg_specs \o pkg_specs) = ResultAfter("specs")

\* run() got three specs, one of them twice and one an rpm file, and they
\* narrowed the base query to the packages of two names
C22_Witness ==
    /\ run_trace # <<>>
    /\ Len(pkg_specs) = 3
    /\ Cardinality(SpecsGiven) = 2
    /\ cmdline_packages \cap ResultAfter("specs") # {}
    /\ \E p \in ResultAfter("specs") : p.name = "cap"
    /\ ResultAfter("specs") # base_query

\* C23: no statement of run() or of resolve_nevras_to_packges() changes a query
\* other than the one it is applied to: what is done to a copy leaves the query
\* it was copied from as it was, and base_query holds the packages it was
\* constructed with until run() ends.
C23_CopiesIndependent ==
    \A i \in 1..Len(run_trace) :
        /\ run_trace[i].view["base_query"] = base_query
        /\ i > 1 =>
               \A n \in (DOMAIN run_trace[i].view \cap DOMAIN run_trace[i - 1].view) \
                            {run_trace[i].dst} :
                   run_trace[i].view[n] = run_trace[i - 1].view[n]

\* run() filtered dependsquery, a copy of result_query, and tmp_query, a copy of
\* the query resolve_nevras_to_packges() was given, down to fewer packages than
\* result_query held
C23_Witness ==
    /\ \E i \in 1..Len(run_trace) :
           /\ run_trace[i].op = "filter"
           /\ run_trace[i].dst = "dependsquery"
           /\ run_trace[i].view["dependsquery"] # run_trace[i].view["result_query"]
    /\ \E i \in 1..Len(run_trace) :
           /\ run_trace[i].op = "filter"
           /\ run_trace[i].dst = "tmp_query"
           /\ run_trace[i].view["tmp_query"] # run_trace[i].view["result_query"]
           /\ run_trace[i].view["tmp_query"] # {}

====
